---- MODULE Spec2Model ----
(***************************************************************************)
(* A model of sopel/bot.py: the Sopel class (handler registry, dispatch,   *)
(* call with its rate limiter, say with its throttle and loop detection,   *)
(* cap_req).  Strings are sequences of one-character strings.  Time is the *)
(* value of time.time() in milliseconds.                                   *)
(***************************************************************************)
EXTENDS Integers, Sequences, FiniteSets, TLC

VARIABLES
    now,        \* time.time(), in milliseconds
    stack,      \* self.stack: recipient -> list of (time, text), absent keys not in DOMAIN
    sending,    \* self.sending: the task holding the lock, or NoTask
    frame,      \* per task: the activation of say() it is running
    written,    \* the transport: every self.write(('PRIVMSG', r), text) so far
    sayLog,     \* one record per completed pass through say()'s locked region
    callables,  \* self._callables: priority -> ordered dict of pattern -> list
    shutdown_methods,   \* self.shutdown_methods
    jobs,       \* self.scheduler: the jobs added and not cleared
    url_callbacks,      \* self.memory['url_callbacks'], or NoDict
    firstReg,   \* per priority, the patterns in the order register() first saw them
    nRegOps,    \* number of register() / unregister() calls after construction
    config,     \* self.config: block lists and per-channel sections
    times,      \* self._times: scope key -> (callable -> time of last use)
    disp,       \* the activation of dispatch(), if any
    calls,      \* every activation of call() so far, in the order dispatch made them
    diag,       \* the aggregated "prevented from using" line of the last dispatch
    inbox,      \* the parsed lines the transport has queued for dispatch
    nEvents,    \* number of events dispatched so far
    _cap_reqs,  \* self._cap_reqs: key -> the list object stored under it
    cap_lists,  \* the list objects cap_req() has made, by identity
    connection_registered,  \* self.connection_registered
    enabled_capabilities,   \* self.enabled_capabilities
    capLog,     \* one record per call of cap_req(): what was asked, how it ended
    shut,       \* the activation of _shutdown(), if any: its place in the list
    shutLog,    \* what the runs of _shutdown() did: begin, call, end
    urlOps      \* the calls of the URL callback methods so far, with their outcomes

sayVars == <<now, stack, sending, frame, written, sayLog>>
regVars == <<callables, shutdown_methods, jobs, url_callbacks, firstReg, nRegOps>>
dispVars == <<config, times, disp, calls, diag, inbox, nEvents>>

capVars == <<_cap_reqs, cap_lists, connection_registered, enabled_capabilities, capLog>>

shutVars == <<shut, shutLog>>

vars == <<sayVars, regVars, dispVars, capVars, shutVars, urlOps>>

----------------------------------------------------------------------------
(* Generic helpers                                                         *)

Min(a, b) == IF a < b THEN a ELSE b
Max(a, b) == IF a > b THEN a ELSE b

Ms(seconds) == seconds * 1000

\* list[-n:]
LastN(s, n) == IF Len(s) <= n THEN s ELSE SubSeq(s, Len(s) - n + 1, Len(s))

\* list.count(x)
Count(s, x) == Cardinality({i \in DOMAIN s : s[i] = x})

\* [f(e) for e in s]
Texts(s) == [i \in DOMAIN s |-> s[i].text]

\* str.rfind(' ', 0, limit): the 1-based position of the last space among the
\* first `limit` characters, 0 when there is none
RFindSpace(text, limit) ==
    LET S == {i \in 1..Min(limit, Len(text)) : text[i] = " "}
    IN  IF S = {} THEN 0 ELSE CHOOSE i \in S : \A j \in S : j <= i

\* str.lstrip() for spaces
RECURSIVE LStrip(_)
LStrip(text) ==
    IF text # <<>> /\ Head(text) = " " THEN LStrip(Tail(text)) ELSE text

\* s with every character in `drop` removed
Without(text, drop) == SelectSeq(text, LAMBDA ch : ch \notin drop)

----------------------------------------------------------------------------
(* say(): constants of the code                                            *)

MaxLineBytes == 400        \* "each no more than 400 bytes"
QuietSeconds == 3          \* if elapsed < 3
BaseWaitMs == 800          \* 0.8 seconds
PenaltyFreeLen == 40       \* len(text) - 40
PenaltyDivisor == 70       \* / 70
MaxWaitSeconds == 2        \* never wait more than 2 seconds
LoopLookback == 8          \* self.stack[recipient_id][-8:]
LoopRepeats == 5           \* messages.count(text) >= 5
LoopSeconds == 120         \* elapsed < 120
DotsLimit == 3             \* messages.count('...') >= 3
StackKeep == 10            \* self.stack[recipient_id][-10:]

Dots == <<".", ".", ".">>

NoTask == 0
Tasks == {1, 2}     \* the threads that call say(): the main loop and one handler thread
NoElapsed == -1

----------------------------------------------------------------------------
(* say(): helpers outside bot.py                                           *)

\* irc.Bot.safe: newlines and carriage returns are removed
safe(text) == Without(text, {"\n", "\r"})

\* tools.get_sendable_message: a head of at most MaxLineBytes bytes, cut at
\* the last space before the limit or at the limit, and the stripped rest
get_sendable_message(text) ==
    IF Len(text) <= MaxLineBytes THEN <<text, <<>>>>
    ELSE LET sp == RFindSpace(text, MaxLineBytes)
         IN  IF sp = 0
             THEN <<SubSeq(text, 1, MaxLineBytes),
                    LStrip(SubSeq(text, MaxLineBytes + 1, Len(text)))>>
             ELSE <<SubSeq(text, 1, sp - 1), LStrip(SubSeq(text, sp, Len(text)))>>

----------------------------------------------------------------------------
(* say()                                                                   *)

IdleFrame ==
    [pc |-> "idle", text |-> <<>>, excess |-> <<>>, rcpt |-> "", max |-> 0,
     elapsed |-> NoElapsed, wake |-> 0]

\* mutant: the text is split whatever max_messages is
SplitForSay_AlwaysSplits(text, max_messages) == get_sendable_message(text)

\* lines 339-346: the head this activation sends and the excess it recurses on
SplitForSay(text, max_messages) ==
    IF max_messages > 1 THEN get_sendable_message(text) ELSE <<text, <<>>>>

\* lines 361-362, in milliseconds
ThrottleWait(text) ==
    Min(BaseWaitMs + (Ms(Max(0, Len(text) - PenaltyFreeLen)) \div PenaltyDivisor),
        Ms(MaxWaitSeconds))

\* mutant: the repeat threshold is off by one (count >= 4)
LoopVerdict_OffByOne(hist, text, elapsed) ==
    LET messages == Texts(LastN(hist, LoopLookback))
    IN  IF Count(messages, text) >= LoopRepeats - 1 /\ elapsed < Ms(LoopSeconds)
        THEN IF Count(messages, Dots) >= DotsLimit THEN "dropped" ELSE "subst"
        ELSE "sent"

\* mutant: the `return` that discards the message is missing
LoopVerdict_NeverDrops(hist, text, elapsed) ==
    LET messages == Texts(LastN(hist, LoopLookback))
    IN  IF Count(messages, text) >= LoopRepeats /\ elapsed < Ms(LoopSeconds)
        THEN "subst"
        ELSE "sent"

\* mutant: the `return` sits outside the test on the count of '...'
LoopVerdict_DropsRepeats(hist, text, elapsed) ==
    LET messages == Texts(LastN(hist, LoopLookback))
    IN  IF Count(messages, text) >= LoopRepeats /\ elapsed < Ms(LoopSeconds)
        THEN "dropped"
        ELSE "sent"

\* lines 366-375: what the loop detection makes of `text`, given the recipient's
\* non-empty history and the time since its last entry
LoopVerdict(hist, text, elapsed) ==
    LET messages == Texts(LastN(hist, LoopLookback))
    IN  IF Count(messages, text) >= LoopRepeats /\ elapsed < Ms(LoopSeconds)
        THEN IF Count(messages, Dots) >= DotsLimit THEN "dropped" ELSE "subst"
        ELSE "sent"

\* mutant: the history is not cut back to its last entries
StackAppend_NoTrim(hist, time, text) ==
    Append(hist, [time |-> time, text |-> safe(text)])

\* lines 378-379
StackAppend(hist, time, text) ==
    LastN(Append(hist, [time |-> time, text |-> safe(text)]), StackKeep)

\* bot.say(text, recipient, max_messages) is entered by task k (lines 339-346)
SayCall(k, text, recipient, max_messages) ==
    /\ frame[k].pc = "idle"
    /\ LET parts == SplitForSay(text, max_messages)
       IN  frame' = [frame EXCEPT ![k] =
                [pc |-> "acquire", text |-> parts[1], excess |-> parts[2],
                 rcpt |-> recipient, max |-> max_messages,
                 elapsed |-> NoElapsed, wake |-> 0]]
    /\ UNCHANGED <<now, stack, sending, written, sayLog, regVars, dispVars, capVars, shutVars, urlOps>>

\* lines 349-364: the lock is taken, the history entry created or the elapsed
\* time computed, and the throttle decides whether to sleep
SayAcquire(k) ==
    LET f == frame[k] IN
    /\ f.pc = "acquire"
    /\ sending = NoTask
    /\ sending' = k
    /\ IF f.rcpt \notin DOMAIN stack
       THEN /\ stack' = [r \in DOMAIN stack \cup {f.rcpt} |->
                            IF r = f.rcpt THEN <<>> ELSE stack[r]]
            /\ frame' = [frame EXCEPT ![k].pc = "send"]
       ELSE /\ stack' = stack
            /\ IF stack[f.rcpt] # <<>>
               THEN LET elapsed == now - stack[f.rcpt][Len(stack[f.rcpt])].time
                        wait == ThrottleWait(f.text)
                    IN  IF elapsed < Ms(QuietSeconds) /\ elapsed < wait
                        THEN frame' = [frame EXCEPT ![k].pc = "sleep",
                                                    ![k].elapsed = elapsed,
                                                    ![k].wake = now + (wait - elapsed)]
                        ELSE frame' = [frame EXCEPT ![k].pc = "send",
                                                    ![k].elapsed = elapsed]
               ELSE frame' = [frame EXCEPT ![k].pc = "send"]
    /\ UNCHANGED <<now, written, sayLog, regVars, dispVars, capVars, shutVars, urlOps>>

\* line 364: time.sleep(wait - elapsed) returns; at least that long has passed
SayWake(k) ==
    /\ frame[k].pc = "sleep"
    /\ now' = Max(now, frame[k].wake)
    /\ frame' = [frame EXCEPT ![k].pc = "send"]
    /\ UNCHANGED <<stack, sending, written, sayLog, regVars, dispVars, capVars, shutVars, urlOps>>

\* mutant: the message that is discarded leaves by the end of the `try` block,
\* and the recursion on the excess follows
SaySend_DropRecurses(k) ==
    LET f == frame[k]
        verdict == IF f.elapsed = NoElapsed THEN "sent"
                   ELSE LoopVerdict(stack[f.rcpt], f.text, f.elapsed)
        out == IF verdict = "sent" THEN f.text ELSE Dots
        entry == [rcpt |-> f.rcpt, text |-> f.text, max |-> f.max, at |-> now,
                  seen |-> Len(written), verdict |-> verdict, task |-> k,
                  elapsed |-> f.elapsed, excess |-> f.excess]
    IN
    /\ f.pc = "send"
    /\ sending = k
    /\ sending' = NoTask
    /\ sayLog' = Append(sayLog, entry)
    /\ IF verdict = "dropped"
       THEN /\ IF f.excess # <<>>
               THEN LET parts == SplitForSay(f.excess, f.max - 1)
                    IN  frame' = [frame EXCEPT ![k] =
                            [pc |-> "acquire", text |-> parts[1], excess |-> parts[2],
                             rcpt |-> f.rcpt, max |-> f.max - 1,
                             elapsed |-> NoElapsed, wake |-> 0]]
               ELSE frame' = [frame EXCEPT ![k] = IdleFrame]
            /\ UNCHANGED <<stack, written>>
       ELSE /\ written' = Append(written, [rcpt |-> f.rcpt, text |-> out, at |-> now])
            /\ stack' = [stack EXCEPT ![f.rcpt] = StackAppend(@, now, out)]
            /\ IF f.excess # <<>>
               THEN LET parts == SplitForSay(f.excess, f.max - 1)
                    IN  frame' = [frame EXCEPT ![k] =
                            [pc |-> "acquire", text |-> parts[1], excess |-> parts[2],
                             rcpt |-> f.rcpt, max |-> f.max - 1,
                             elapsed |-> NoElapsed, wake |-> 0]]
               ELSE frame' = [frame EXCEPT ![k] = IdleFrame]
    /\ UNCHANGED <<now, regVars, dispVars, capVars, shutVars, urlOps>>

\* lines 366-385: loop detection, the write, the history update, the release
\* of the lock, and the recursion on the excess
SaySend(k) ==
    LET f == frame[k]
        verdict == IF f.elapsed = NoElapsed THEN "sent"
                   ELSE LoopVerdict(stack[f.rcpt], f.text, f.elapsed)
        out == IF verdict = "sent" THEN f.text ELSE Dots
        entry == [rcpt |-> f.rcpt, text |-> f.text, max |-> f.max, at |-> now,
                  seen |-> Len(written), verdict |-> verdict, task |-> k,
                  elapsed |-> f.elapsed, excess |-> f.excess]
    IN
    /\ f.pc = "send"
    /\ sending = k
    /\ sending' = NoTask
    /\ sayLog' = Append(sayLog, entry)
    /\ IF verdict = "dropped"
       THEN /\ frame' = [frame EXCEPT ![k] = IdleFrame]
            /\ UNCHANGED <<stack, written>>
       ELSE /\ written' = Append(written, [rcpt |-> f.rcpt, text |-> out, at |-> now])
            /\ stack' = [stack EXCEPT ![f.rcpt] = StackAppend(@, now, out)]
            /\ IF f.excess # <<>>
               THEN LET parts == SplitForSay(f.excess, f.max - 1)
                    IN  frame' = [frame EXCEPT ![k] =
                            [pc |-> "acquire", text |-> parts[1], excess |-> parts[2],
                             rcpt |-> f.rcpt, max |-> f.max - 1,
                             elapsed |-> NoElapsed, wake |-> 0]]
               ELSE frame' = [frame EXCEPT ![k] = IdleFrame]
    /\ UNCHANGED <<now, regVars, dispVars, capVars, shutVars, urlOps>>

\* the clock moves on
Tick(d) ==
    /\ now' = now + d
    /\ UNCHANGED <<stack, sending, frame, written, sayLog, regVars, dispVars, capVars, shutVars, urlOps>>

----------------------------------------------------------------------------
(* Callables: the attributes register(), unregister(), dispatch() and call() *)
(* read from the objects the plugin loader hands over                        *)

Priorities == <<"high", "medium", "low">>

CatchAll == <<".", "*">>        \* re.compile('.*')
PatA == <<"a">>                 \* re.compile('a')
PatAB == <<"a", "b">>           \* re.compile('ab')

NOLIMIT == "NOLIMIT"            \* sopel.module.NOLIMIT
ReturnsNone == "None"
Raises == "raise"

PlainCallable ==
    [hasRule |-> TRUE, rule |-> <<>>, priority |-> "medium",
     event |-> {"PRIVMSG"}, hasIntents |-> FALSE, intents |-> {},
     unblockable |-> FALSE, echo |-> FALSE, thread |-> FALSE,
     rate |-> 0, global_rate |-> 0, channel_rate |-> 0,
     module |-> "chat", hasInterval |-> FALSE, isShutdown |-> FALSE,
     returns |-> {ReturnsNone}]

\* the modules' functions named `shutdown`
Shutdowns == {"chat.shutdown", "core.shutdown"}

Callables == {"help", "greet", "fetch", "act", "log", "note"}

Attr(o) ==
    CASE o = "help" ->
           [PlainCallable EXCEPT !.rule = <<PatA>>, !.priority = "high",
                                 !.module = "admin",
                                 !.returns = {ReturnsNone, Raises}]
      [] o = "greet" ->
           [PlainCallable EXCEPT !.rule = <<PatAB>>, !.rate = 2,
                                 !.returns = {ReturnsNone, NOLIMIT}]
      [] o = "fetch" ->
           [PlainCallable EXCEPT !.rule = <<PatA>>, !.priority = "low",
                                 !.thread = TRUE,
                                 !.rate = 2, !.channel_rate = 1]
      [] o = "act" ->
           [PlainCallable EXCEPT !.rule = <<PatA, PatAB>>,
                                 !.hasIntents = TRUE, !.intents = {"ACTION"},
                                 !.global_rate = 1]
      [] o = "log" ->
           [PlainCallable EXCEPT !.hasRule = FALSE, !.priority = "low",
                                 !.event = {"PRIVMSG", "JOIN"},
                                 !.unblockable = TRUE, !.echo = TRUE,
                                 !.module = "core"]
      [] o = "note" ->
           [PlainCallable EXCEPT !.rule = <<PatA, PatAB>>]
      [] o \in Shutdowns ->
           [PlainCallable EXCEPT !.hasRule = FALSE, !.isShutdown = TRUE]

----------------------------------------------------------------------------
(* Ordered dictionaries (dict, collections.defaultdict): a sequence of      *)
(* [key, val] in insertion order                                            *)

NoDict == "absent"

DictKeys(d) == {d[i].key : i \in DOMAIN d}
DictIndex(d, k) == CHOOSE i \in DOMAIN d : d[i].key = k
DictGet(d, k) == d[DictIndex(d, k)].val

\* d[k] = v
DictPut(d, k, v) ==
    IF k \in DictKeys(d)
    THEN [d EXCEPT ![DictIndex(d, k)].val = v]
    ELSE Append(d, [key |-> k, val |-> v])

\* del d[k], for a key that is present
DictDel(d, k) ==
    LET n == DictIndex(d, k)
    IN  SubSeq(d, 1, n - 1) \o SubSeq(d, n + 1, Len(d))

\* the dictionary after defaultdict(list).__getitem__(k)
DefaultTouch(d, k) == IF k \in DictKeys(d) THEN d ELSE Append(d, [key |-> k, val |-> <<>>])

\* x in list
InList(s, x) == \E i \in DOMAIN s : s[i] = x

\* list.remove(x): the first occurrence goes
ListRemove(s, x) ==
    LET n == CHOOSE i \in DOMAIN s : s[i] = x /\ \A j \in 1..(i - 1) : s[j] # x
    IN  SubSeq(s, 1, n - 1) \o SubSeq(s, n + 1, Len(s))

----------------------------------------------------------------------------
(* register() and unregister()                                             *)

EmptyCallables == [p \in {"high", "medium", "low"} |-> <<>>]

\* the patterns a callable is filed under (lines 270-274)
RulesOf(o) == IF Attr(o).hasRule THEN Attr(o).rule ELSE <<CatchAll>>

\* line 272 / 274: self._callables[priority][rule].append(callbl)
FileUnder(d, rule, o) == DictPut(DefaultTouch(d, rule), rule, Append(DictGet(DefaultTouch(d, rule), rule), o))

\* lines 271-274 for one callable: every rule in turn
RECURSIVE FileRules(_, _, _)
FileRules(d, rules, o) ==
    IF rules = <<>> THEN d
    ELSE FileRules(FileUnder(d, Head(rules), o), Tail(rules), o)

\* lines 269-274: the loop over the callables
RECURSIVE RegisterCallables(_, _)
RegisterCallables(cs, objs) ==
    IF objs = <<>> THEN cs
    ELSE LET o == Head(objs)
         IN  RegisterCallables(
                 [cs EXCEPT ![Attr(o).priority] = FileRules(@, RulesOf(o), o)],
                 Tail(objs))

\* lines 246-248 for one rule: the bucket is looked up (and so created), and
\* the callable removed from it if it is there
Unfile(d, rule, o) ==
    LET d1 == DefaultTouch(d, rule)
    IN  IF InList(DictGet(d1, rule), o)
        THEN DictPut(d1, rule, ListRemove(DictGet(d1, rule), o))
        ELSE d1

RECURSIVE UnfileRules(_, _, _)
UnfileRules(d, rules, o) ==
    IF rules = <<>> THEN d
    ELSE UnfileRules(Unfile(d, Head(rules), o), Tail(rules), o)

\* lines 244-248
UnregisterCallable(cs, o) ==
    IF Attr(o).hasRule
    THEN [cs EXCEPT ![Attr(o).priority] = UnfileRules(@, Attr(o).rule, o)]
    ELSE cs

\* the order in which the patterns of each priority were first registered
RECURSIVE NoteRules(_, _)
NoteRules(seen, rules) ==
    IF rules = <<>> THEN seen
    ELSE NoteRules(IF InList(seen, Head(rules)) THEN seen ELSE Append(seen, Head(rules)),
                   Tail(rules))

RECURSIVE NoteFirstReg(_, _)
NoteFirstReg(fr, objs) ==
    IF objs = <<>> THEN fr
    ELSE LET o == Head(objs)
         IN  NoteFirstReg([fr EXCEPT ![Attr(o).priority] = NoteRules(@, RulesOf(o))],
                          Tail(objs))

\* lines 288-289 and 731-737: register_url_callback for every url function
RECURSIVE RegisterUrls(_, _)
RegisterUrls(ucb, urls) ==
    IF urls = <<>> THEN ucb
    ELSE LET base == IF ucb = NoDict THEN <<>> ELSE ucb
         IN  RegisterUrls(DictPut(base, Head(urls).url_regex, Head(urls).func),
                          Tail(urls))

\* bot.register(callables, jobs, shutdowns, urls), lines 266-289.  The help
\* metadata (self.doc, self._command_groups) is write-only here and left out.
Register(objs, newJobs, shutdowns, urls) ==
    /\ disp.pc = "idle"
    /\ shutdown_methods' = shutdown_methods \o shutdowns
    /\ callables' = RegisterCallables(callables, objs)
    /\ firstReg' = NoteFirstReg(firstReg, objs)
    /\ jobs' = jobs \o newJobs
    /\ url_callbacks' = RegisterUrls(url_callbacks, urls)
    /\ nRegOps' = nRegOps + 1
    /\ UNCHANGED <<sayVars, dispVars, capVars, shutVars, urlOps>>

\* bot.unregister(obj), lines 242-255
Unregister(o) ==
    /\ disp.pc = "idle"
    /\ callables' = UnregisterCallable(callables, o)
    /\ jobs' = IF Attr(o).hasInterval THEN <<>> ELSE jobs
    /\ shutdown_methods' =
           IF Attr(o).isShutdown /\ InList(shutdown_methods, o)
           THEN ListRemove(shutdown_methods, o)
           ELSE shutdown_methods
    /\ nRegOps' = nRegOps + 1
    /\ UNCHANGED <<url_callbacks, firstReg, sayVars, dispVars, capVars, shutVars, urlOps>>

----------------------------------------------------------------------------
(* dispatch()                                                              *)

BotNick == "Bot"                \* self.nick
NoIntent == "none"              \* trigger.tags.get('intent') is None
Channels == {"#chan"}

\* str.lower() / Identifier folding, on the names in play
Lower(name) ==
    CASE name = "AL" -> "al"
      [] name = "Bot" -> "bot"
      [] name = "ROOT" -> "root"
      [] name = "HOST1" -> "host1"
      [] OTHER -> name

\* str.strip(), on the masks in play
Strip(mask) ==
    CASE mask = " " -> ""
      [] mask = " AL " -> "AL"
      [] OTHER -> mask

\* trigger.is_privmsg: the sender is a nick, not a channel
IsPrivmsg(ev) == ev.sender \notin Channels

\* regexp.match(text) for the patterns in play: '.*' matches everything, a
\* literal matches as a prefix
Match(rule, text) ==
    \/ rule = CatchAll
    \/ (Len(rule) <= Len(text) /\ SubSeq(text, 1, Len(rule)) = rule)

\* lines 596-597 / 607-608 for a literal mask: a case-insensitive full match
MaskMatches(mask, name) == Lower(mask) = Lower(name)

\* _nick_blocked / _host_blocked (lines 590-610)
ListBlocks(masks, name) ==
    \E i \in DOMAIN masks : Strip(masks[i]) # "" /\ MaskMatches(Strip(masks[i]), name)
_nick_blocked(nick) == ListBlocks(config.nick_blocks, nick)
_host_blocked(host) == ListBlocks(config.host_blocks, host)

\* chained sequences into one
RECURSIVE Flatten(_)
Flatten(ss) == IF ss = <<>> THEN <<>> ELSE Head(ss) \o Flatten(Tail(ss))

\* lines 536-545 for one priority: the (pattern, callable) pairs of the
\* patterns that match, in dictionary order and list order
MatchingItems(priority, d, text) ==
    Flatten([i \in DOMAIN d |->
        IF Match(d[i].key, text)
        THEN [j \in DOMAIN d[i].val |->
                 [priority |-> priority, rule |-> d[i].key, func |-> d[i].val[j]]]
        ELSE <<>>])

\* lines 533-545: priorities in the fixed order
MatchingQueue(cs, text) ==
    Flatten([n \in DOMAIN Priorities |-> MatchingItems(Priorities[n], cs[Priorities[n]], text)])

\* mutant: the test `event not in func.event` is missing
Verdict_NoEventFilter(o, ev, nick_blocked, host_blocked) ==
    IF ~ev.admin /\ ~Attr(o).unblockable /\ (nick_blocked \/ host_blocked)
    THEN "blocked"
    ELSE IF Attr(o).hasIntents /\ (ev.intent = NoIntent \/ ev.intent \notin Attr(o).intents)
    THEN "skip"
    ELSE IF Lower(ev.nick) = Lower(BotNick) /\ ~Attr(o).echo
    THEN "skip"
    ELSE "call"

\* mutant: the block-list test forgets `not func.unblockable`
Verdict_IgnoresExemption(o, ev, nick_blocked, host_blocked) ==
    IF ~ev.admin /\ (nick_blocked \/ host_blocked)
    THEN "blocked"
    ELSE IF ev.event \notin Attr(o).event
    THEN "skip"
    ELSE IF Attr(o).hasIntents /\ (ev.intent = NoIntent \/ ev.intent \notin Attr(o).intents)
    THEN "skip"
    ELSE IF Lower(ev.nick) = Lower(BotNick) /\ ~Attr(o).echo
    THEN "skip"
    ELSE "call"

\* mutant: the test on the bot's own lines is missing
Verdict_NoEchoFilter(o, ev, nick_blocked, host_blocked) ==
    IF ~ev.admin /\ ~Attr(o).unblockable /\ (nick_blocked \/ host_blocked)
    THEN "blocked"
    ELSE IF ev.event \notin Attr(o).event
    THEN "skip"
    ELSE IF Attr(o).hasIntents /\ (ev.intent = NoIntent \/ ev.intent \notin Attr(o).intents)
    THEN "skip"
    ELSE "call"

\* lines 546-568: what dispatch does with one callable of a matching pattern
Verdict(o, ev, nick_blocked, host_blocked) ==
    IF ~ev.admin /\ ~Attr(o).unblockable /\ (nick_blocked \/ host_blocked)
    THEN "blocked"
    ELSE IF ev.event \notin Attr(o).event
    THEN "skip"
    ELSE IF Attr(o).hasIntents /\ (ev.intent = NoIntent \/ ev.intent \notin Attr(o).intents)
    THEN "skip"
    ELSE IF Lower(ev.nick) = Lower(BotNick) /\ ~Attr(o).echo
    THEN "skip"
    ELSE "call"

IdleDispatch ==
    [pc |-> "idle", ev |-> <<>>, nick_blocked |-> FALSE, host_blocked |-> FALSE,
     queue |-> <<>>, blocked |-> <<>>, wait |-> 0]

\* mutant: dispatch goes on to the next callable while an inline call runs
InlineReturned_NoWait == TRUE

\* the inline call dispatch is inside of, if any, has returned
InlineReturned ==
    IF disp.wait = 0 THEN TRUE ELSE calls[disp.wait].pc \in {"done", "rejected"}

\* dispatch(pretrigger) is entered for the next queued line (lines 523-536)
DispatchBegin ==
    /\ disp.pc = "idle"
    /\ inbox # <<>>
    /\ LET ev == Head(inbox)
           checked == config.nick_blocks # <<>> \/ config.host_blocks # <<>>
       IN  disp' = [pc |-> "running", ev |-> ev,
                    nick_blocked |-> checked /\ _nick_blocked(ev.nick),
                    host_blocked |-> checked /\ _host_blocked(ev.host),
                    queue |-> MatchingQueue(callables, ev.text),
                    blocked |-> <<>>, wait |-> 0]
    /\ inbox' = Tail(inbox)
    /\ nEvents' = nEvents + 1
    /\ UNCHANGED <<config, times, calls, diag, sayVars, regVars, capVars, shutVars, urlOps>>

\* lines 545-574 for the next callable: filtered out, started as a thread, or
\* called inline
DispatchStep ==
    /\ disp.pc = "running"
    /\ disp.queue # <<>>
    /\ InlineReturned
    /\ LET item == Head(disp.queue)
           v == Verdict(item.func, disp.ev, disp.nick_blocked, disp.host_blocked)
           call == [func |-> item.func, rule |-> item.rule, ev |-> disp.ev,
                    evno |-> nEvents, thread |-> Attr(item.func).thread,
                    pc |-> "start", ct |-> 0, n |-> 0, missing |-> FALSE,
                    lost |-> FALSE, result |-> ""]
       IN  /\ calls' = IF v = "call" THEN Append(calls, call) ELSE calls
           /\ disp' = [disp EXCEPT
                  !.queue = Tail(@),
                  !.blocked = IF v = "blocked" THEN Append(@, item.func) ELSE @,
                  !.wait = IF v = "call" /\ ~Attr(item.func).thread
                           THEN Len(calls) + 1 ELSE 0]
    /\ UNCHANGED <<config, times, diag, inbox, nEvents, sayVars, regVars, capVars, shutVars, urlOps>>

\* lines 576-588: the loops are over; the aggregated line is logged
DispatchEnd ==
    /\ disp.pc = "running"
    /\ disp.queue = <<>>
    /\ InlineReturned
    /\ diag' = IF disp.blocked # <<>>
               THEN [block_type |-> IF disp.nick_blocked /\ disp.host_blocked THEN "both"
                                    ELSE IF disp.nick_blocked THEN "nick" ELSE "host",
                     nick |-> disp.ev.nick, funcs |-> disp.blocked]
               ELSE diag
    /\ disp' = IdleDispatch
    /\ UNCHANGED <<config, times, calls, inbox, nEvents, sayVars, regVars, capVars, shutVars, urlOps>>

----------------------------------------------------------------------------
(* call()                                                                  *)

\* f with f[k] = v, k added to its domain if need be
SetAt(f, k, v) == [x \in DOMAIN f \cup {k} |-> IF x = k THEN v ELSE f[x]]

\* the scopes of an event: the actor, the bot, and the channel if there is one
ActorKey(ev) == Lower(ev.nick)
BotKey == Lower(BotNick)
ScopeKeys(ev) ==
    {ActorKey(ev), BotKey} \cup (IF IsPrivmsg(ev) THEN {} ELSE {Lower(ev.sender)})

\* one of the three tests of lines 455-482
TooSoon(t, key, o, limit, current_time) ==
    /\ o \in DOMAIN t[key]
    /\ limit > 0
    /\ current_time - t[key][o] < Ms(limit)

\* lines 454-482
RateRejects(t, o, ev, current_time) ==
    /\ ~ev.admin
    /\ ~Attr(o).unblockable
    /\ \/ TooSoon(t, ActorKey(ev), o, Attr(o).rate, current_time)
       \/ TooSoon(t, BotKey, o, Attr(o).global_rate, current_time)
       \/ (~IsPrivmsg(ev) /\ TooSoon(t, Lower(ev.sender), o, Attr(o).channel_rate,
                                     current_time))

\* lines 485-504
ConfigDisables(o, ev) ==
    /\ ev.sender \in DOMAIN config.sections
    /\ LET sec == config.sections[ev.sender]
       IN  \/ (sec.hasModules /\ ("*" \in sec.disable_modules
                                  \/ Attr(o).module \in sec.disable_modules))
           \/ (sec.hasCommands /\ <<Attr(o).module, o>> \in sec.disable_commands)

\* lines 512-516
Stamp(t, o, ev, current_time) ==
    LET t1 == [t EXCEPT ![ActorKey(ev)] = SetAt(@, o, current_time)]
        t2 == [t1 EXCEPT ![BotKey] = SetAt(@, o, current_time)]
    IN  IF IsPrivmsg(ev) THEN t2
        ELSE [t2 EXCEPT ![Lower(ev.sender)] = SetAt(@, o, current_time)]

\* mutant: the times are stamped whatever the body returned
StampAfter_Always(t, o, ev, current_time, exit_code) == Stamp(t, o, ev, current_time)

\* lines 512-516: `if exit_code != NOLIMIT`
StampAfter(t, o, ev, current_time, exit_code) ==
    IF exit_code # NOLIMIT THEN Stamp(t, o, ev, current_time) ELSE t

\* the keys of lines 446-451, in the order call() looks them up
ScopeSeq(ev) ==
    <<ActorKey(ev), BotKey>> \o (IF IsPrivmsg(ev) THEN <<>> ELSE <<Lower(ev.sender)>>)

\* `self._times[key] = dict()`, made when the test before it found no entry
Created(t, key, missing) == IF missing THEN SetAt(t, key, <<>>) ELSE t

\* the assignment puts an empty dict in the place of one that holds timestamps
Discards(t, key, missing) == missing /\ key \in DOMAIN t /\ t[key] # <<>>

\* lines 445-446: the time is taken and the actor's entry is looked up
CallEnter(c) ==
    /\ c \in DOMAIN calls
    /\ calls[c].pc = "start"
    /\ calls' = [calls EXCEPT ![c].pc = "enter", ![c].ct = now, ![c].n = 1,
                              ![c].missing = ActorKey(calls[c].ev) \notin DOMAIN times]
    /\ UNCHANGED <<config, times, disp, diag, inbox, nEvents, sayVars, regVars, capVars, shutVars, urlOps>>

\* lines 447-450: the entry found missing is created and the next one looked up
CallCreate(c) ==
    /\ c \in DOMAIN calls
    /\ calls[c].pc = "enter"
    /\ calls[c].n < Len(ScopeSeq(calls[c].ev))
    /\ LET call == calls[c]
           keys == ScopeSeq(call.ev)
           t1 == Created(times, keys[call.n], call.missing)
       IN  /\ times' = t1
           /\ calls' = [calls EXCEPT
                  ![c].n = call.n + 1,
                  ![c].missing = keys[call.n + 1] \notin DOMAIN t1,
                  ![c].lost = call.lost \/ Discards(times, keys[call.n], call.missing)]
    /\ UNCHANGED <<config, disp, diag, inbox, nEvents, sayVars, regVars, capVars, shutVars, urlOps>>

\* lines 449-504: the last entry found missing is created, then the rate
\* limits and the channel's configuration decide whether the body runs
CallCheck(c) ==
    /\ c \in DOMAIN calls
    /\ calls[c].pc = "enter"
    /\ calls[c].n = Len(ScopeSeq(calls[c].ev))
    /\ LET call == calls[c]
           keys == ScopeSeq(call.ev)
           t1 == Created(times, keys[call.n], call.missing)
           rejected == RateRejects(t1, call.func, call.ev, call.ct)
                       \/ ConfigDisables(call.func, call.ev)
       IN  /\ times' = t1
           /\ calls' = [calls EXCEPT
                  ![c].pc = IF rejected THEN "rejected" ELSE "body",
                  ![c].lost = call.lost \/ Discards(times, keys[call.n], call.missing)]
    /\ UNCHANGED <<config, disp, diag, inbox, nEvents, sayVars, regVars, capVars, shutVars, urlOps>>

\* mutant: there is no `except`: an exception leaves call(), and dispatch() with
\* it when the call was made inline
CallReturn_Propagates(c, result) ==
    /\ c \in DOMAIN calls
    /\ calls[c].pc = "body"
    /\ result \in Attr(calls[c].func).returns
    /\ times' = IF result = Raises THEN times
                 ELSE StampAfter(times, calls[c].func, calls[c].ev, calls[c].ct, result)
    /\ calls' = [calls EXCEPT ![c].pc = "done", ![c].result = result]
    /\ disp' = IF result = Raises /\ ~calls[c].thread
                THEN [disp EXCEPT !.queue = <<>>, !.wait = 0]
                ELSE disp
    /\ UNCHANGED <<config, diag, inbox, nEvents, sayVars, regVars, capVars, shutVars, urlOps>>

\* lines 506-516: the body returns `result` or raises, and the times are stamped
CallReturn(c, result) ==
    /\ c \in DOMAIN calls
    /\ calls[c].pc = "body"
    /\ result \in Attr(calls[c].func).returns
    /\ LET call == calls[c]
           exit_code == IF result = Raises THEN ReturnsNone ELSE result
       IN  times' = StampAfter(times, call.func, call.ev, call.ct, exit_code)
    /\ calls' = [calls EXCEPT ![c].pc = "done", ![c].result = result]
    /\ UNCHANGED <<config, disp, diag, inbox, nEvents, sayVars, regVars, capVars, shutVars, urlOps>>

----------------------------------------------------------------------------
(* cap_req()                                                               *)

\* _CapReq (line 47), the fields cap_req() compares
_CapReq(prefix, module, arg) == [prefix |-> prefix, module |-> module, arg |-> arg]

NoArg == "None"

\* lines 93-96 (and irc.Bot.__init__: connection_registered)
InitCap ==
    /\ _cap_reqs = <<>>
    /\ cap_lists = <<>>
    /\ connection_registered = FALSE
    /\ enabled_capabilities = {}
    /\ capLog = <<>>

\* mutant: the request is appended to the stored list before the tests are made
cap_req_AppendsFirst(reqs, lists, registered, enabled, module_name, capability, arg) ==
    LET cap0 == Tail(capability)
        prefix0 == Head(capability)
        found == cap0 \in DOMAIN reqs
        ref == IF found THEN reqs[cap0] ELSE Len(lists) + 1
        entry == IF found THEN lists[ref] ELSE <<>>
        argConflict == \E i \in DOMAIN entry : entry[i].arg # arg
        forbid == prefix0 = "-"
        cap == IF forbid \/ prefix0 = "=" THEN cap0 ELSE capability
        prefix == IF forbid \/ prefix0 = "=" THEN prefix0 ELSE ""
        raises ==
            \/ argConflict
            \/ forbid /\ registered /\ cap \in enabled
            \/ forbid /\ \E i \in DOMAIN entry : entry[i].prefix # "-"
            \/ ~forbid /\ registered /\ cap \notin enabled
            \/ ~forbid /\ prefix = "=" /\ \E i \in DOMAIN entry : entry[i].prefix = "-"
        grown == Append(entry, _CapReq(prefix, module_name, arg))
    IN  [ok |-> ~raises,
         reqs |-> IF raises /\ ~found THEN reqs ELSE SetAt(reqs, cap, ref),
         lists |-> IF found THEN [lists EXCEPT ![ref] = grown]
                   ELSE IF raises THEN lists ELSE Append(lists, grown)]

\* lines 676-706: the outcome of cap_req(module_name, capability, arg) on the
\* requests `reqs` and list objects `lists`: whether it returns or raises, and
\* the requests and list objects it leaves
cap_req(reqs, lists, registered, enabled, module_name, capability, arg) ==
    LET cap0 == Tail(capability)
        prefix0 == Head(capability)
        found == cap0 \in DOMAIN reqs
        ref == IF found THEN reqs[cap0] ELSE Len(lists) + 1
        entry == IF found THEN lists[ref] ELSE <<>>
        argConflict == \E i \in DOMAIN entry : entry[i].arg # arg
        forbid == prefix0 = "-"
        cap == IF forbid \/ prefix0 = "=" THEN cap0 ELSE capability
        prefix == IF forbid \/ prefix0 = "=" THEN prefix0 ELSE ""
        raises ==
            \/ argConflict
            \/ forbid /\ registered /\ cap \in enabled
            \/ forbid /\ \E i \in DOMAIN entry : entry[i].prefix # "-"
            \/ ~forbid /\ registered /\ cap \notin enabled
            \/ ~forbid /\ prefix = "=" /\ \E i \in DOMAIN entry : entry[i].prefix = "-"
        grown == Append(entry, _CapReq(prefix, module_name, arg))
    IN  IF raises
        THEN [ok |-> FALSE, reqs |-> reqs, lists |-> lists]
        ELSE [ok |-> TRUE,
              reqs |-> SetAt(reqs, cap, ref),
              lists |-> IF found THEN [lists EXCEPT ![ref] = grown]
                        ELSE Append(lists, grown)]

\* a module's setup() calls cap_req()
CapReq(module_name, capability, arg) ==
    /\ LET out == cap_req(_cap_reqs, cap_lists, connection_registered,
                          enabled_capabilities, module_name, capability, arg)
       IN  /\ _cap_reqs' = out.reqs
           /\ cap_lists' = out.lists
           /\ capLog' = Append(capLog, [module |-> module_name, capability |-> capability,
                                        arg |-> arg, ok |-> out.ok,
                                        registered |-> connection_registered,
                                        enabled |-> enabled_capabilities])
    /\ UNCHANGED <<connection_registered, enabled_capabilities, sayVars, regVars, dispVars, shutVars, urlOps>>

\* the transport finishes capability negotiation and registration with `enabled`
\* acknowledged
ConnectionRegistered(enabled) ==
    /\ ~connection_registered
    /\ connection_registered' = TRUE
    /\ enabled_capabilities' = enabled
    /\ UNCHANGED <<_cap_reqs, cap_lists, capLog, sayVars, regVars, dispVars, shutVars, urlOps>>

----------------------------------------------------------------------------
(* _shutdown()                                                             *)

IdleShutdown == [pc |-> "idle", i |-> 0, run |-> 0]

InitShutdown ==
    /\ shut = IdleShutdown
    /\ shutLog = <<>>

\* lines 612-617: _shutdown() is entered and the for loop makes its iterator
\* over the list object self.shutdown_methods
ShutdownBegin ==
    /\ shut.pc = "idle"
    /\ shut' = [pc |-> "running", i |-> 0, run |-> shut.run + 1]
    /\ shutLog' = Append(shutLog, [kind |-> "begin", run |-> shut.run + 1,
                                   hook |-> "", list |-> shutdown_methods,
                                   regops |-> nRegOps])
    /\ UNCHANGED <<sayVars, regVars, dispVars, capVars, urlOps>>

\* the list iterator's next(): the item at its index, if the list is that long
\* now, and the index moves on
IterNext(list, i) ==
    IF i < Len(list) THEN [more |-> TRUE, item |-> list[i + 1], i |-> i + 1]
    ELSE [more |-> FALSE, item |-> "", i |-> i]

\* lines 617-624: the loop takes the next hook and calls it, or, the iterator
\* exhausted, line 632 puts a new empty list in place
ShutdownStep ==
    /\ shut.pc = "running"
    /\ LET nxt == IterNext(shutdown_methods, shut.i)
       IN  IF nxt.more
           THEN /\ shut' = [shut EXCEPT !.pc = "hook", !.i = nxt.i]
                /\ shutLog' = Append(shutLog, [kind |-> "call", run |-> shut.run,
                                               hook |-> nxt.item,
                                               list |-> shutdown_methods,
                                               regops |-> nRegOps])
                /\ UNCHANGED shutdown_methods
           ELSE /\ shut' = [shut EXCEPT !.pc = "idle", !.i = 0]
                /\ shutLog' = Append(shutLog, [kind |-> "end", run |-> shut.run,
                                               hook |-> "",
                                               list |-> shutdown_methods,
                                               regops |-> nRegOps])
                /\ shutdown_methods' = <<>>
    /\ UNCHANGED <<callables, jobs, url_callbacks, firstReg, nRegOps,
                   sayVars, dispVars, capVars, urlOps>>

\* lines 624-630: the hook returns, or raises an Exception that is caught and
\* reported
HookReturn(raised) ==
    /\ shut.pc = "hook"
    /\ shut' = [shut EXCEPT !.pc = "running"]
    /\ shutLog' = Append(shutLog, [kind |-> IF raised THEN "raised" ELSE "returned",
                                   run |-> shut.run, hook |-> "",
                                   list |-> shutdown_methods, regops |-> nRegOps])
    /\ UNCHANGED <<sayVars, regVars, dispVars, capVars, urlOps>>

----------------------------------------------------------------------------
(* URL callbacks                                                           *)

\* regex.search(url) for a pattern without metacharacters: the match object
\* (its pattern and where it starts), or NoMatch
NoMatch == [re |-> <<>>, start |-> 0]
search(regex, url) ==
    LET at == {i \in 1..(Len(url) - Len(regex) + 1) :
                  SubSeq(url, i, i + Len(regex) - 1) = regex}
    IN  IF at = {} THEN NoMatch
        ELSE [re |-> regex, start |-> CHOOSE i \in at : \A j \in at : i <= j]

\* lines 731-737
register_url_callback(ucb, pattern, callback) ==
    DictPut(IF ucb = NoDict THEN <<>> ELSE ucb, pattern, callback)

\* lines 761-771
unregister_url_callback(ucb, pattern) ==
    IF ucb = NoDict THEN ucb
    ELSE IF pattern \in DictKeys(ucb) THEN DictDel(ucb, pattern)
    ELSE ucb

\* lines 797-800, the generator run to its end: the pairs it yields, or the
\* KeyError of self.memory['url_callbacks']
search_url_callbacks(ucb, url) ==
    IF ucb = NoDict
    THEN [raised |-> "KeyError", pairs |-> <<>>]
    ELSE [raised |-> "",
          pairs |-> Flatten([i \in DOMAIN ucb |->
                       IF search(ucb[i].key, url) # NoMatch
                       THEN <<[function |-> ucb[i].val,
                               match |-> search(ucb[i].key, url)]>>
                       ELSE <<>>])]

RegisterUrlCallback(pattern, callback) ==
    /\ url_callbacks' = register_url_callback(url_callbacks, pattern, callback)
    /\ urlOps' = Append(urlOps, [op |-> "register", pattern |-> pattern,
                                 callback |-> callback])
    /\ UNCHANGED <<callables, shutdown_methods, jobs, firstReg, nRegOps,
                   sayVars, dispVars, capVars, shutVars>>

UnregisterUrlCallback(pattern) ==
    /\ url_callbacks' = unregister_url_callback(url_callbacks, pattern)
    /\ urlOps' = Append(urlOps, [op |-> "unregister", pattern |-> pattern])
    /\ UNCHANGED <<callables, shutdown_methods, jobs, firstReg, nRegOps,
                   sayVars, dispVars, capVars, shutVars>>

SearchUrlCallbacks(url) ==
    /\ urlOps' = Append(urlOps, [op |-> "search", url |-> url,
                                 result |-> search_url_callbacks(url_callbacks, url)])
    /\ UNCHANGED <<sayVars, regVars, dispVars, capVars, shutVars>>

----------------------------------------------------------------------------
(* say(): the bounded environment                                          *)

MaxLoopSends == 10      \* passes through say() in SpecSayLoop
MaxRepeatSends == 7     \* passes through say() in SpecSayRepeat
MaxTime == 130000       \* the clock is not ticked past this (ms)
MaxRegOps == 3          \* register() / unregister() calls after construction
MaxCallSeconds == 2     \* the clock is not ticked past this in SpecCall (s)
MaxCapReqs == 3         \* calls of cap_req() in SpecCap
MaxHistSends == 11      \* passes through say() in SpecSayHistory
MaxShutdownRuns == 2    \* runs of _shutdown() in SpecShutdown
MaxHookOps == 3         \* register() / unregister() calls in SpecShutdown
MaxUrlOps == 4          \* calls of the URL callback methods in SpecUrl
MaxFragments == 3       \* the largest max_messages passed to say() in SpecSaySplit
MaxSplitPasses == 2     \* passes through say() before the last call in SpecSaySplit
MaxDropSends == 10      \* passes through say() before the last call in SpecSayDrop
MaxTaskSends == 4       \* passes through say() in SpecSayTasks

Hi == <<"h", "i">>
Yo == <<"y", "o">>
HiNewline == <<"h", "i", "\n">>

InitSay ==
    /\ now = 0
    /\ stack = <<>>
    /\ sending = NoTask
    /\ frame = [k \in Tasks |-> IdleFrame]
    /\ written = <<>>
    /\ sayLog = <<>>

\* Events: the fields of the PreTrigger / Trigger that dispatch() and call() read
Event(type, text, nick, host, sender, admin, intent) ==
    [event |-> type, text |-> text, nick |-> nick, host |-> host,
     sender |-> sender, admin |-> admin, intent |-> intent]

EvAl == Event("PRIVMSG", <<"a", "b">>, "al", "host1", "#chan", FALSE, NoIntent)
EvAlQuery == Event("PRIVMSG", <<"a", "b">>, "al", "host1", "al", FALSE, NoIntent)
EvAlAction == Event("PRIVMSG", <<"a", "b">>, "al", "host1", "#chan", FALSE, "ACTION")
EvAlOther == Event("PRIVMSG", <<"b">>, "al", "host1", "#chan", FALSE, NoIntent)
EvNotice == Event("NOTICE", <<"a", "b">>, "al", "host1", "#chan", FALSE, NoIntent)
EvEcho == Event("PRIVMSG", <<"a", "b">>, "bot", "host3", "#chan", FALSE, NoIntent)
EvRoot == Event("PRIVMSG", <<"a", "b">>, "root", "host2", "#chan", TRUE, NoIntent)

\* Configurations: the block lists and the per-channel sections
NoSection == <<>>
Config(nick_blocks, host_blocks, sections) ==
    [nick_blocks |-> nick_blocks, host_blocks |-> host_blocks, sections |-> sections]

ConfigPlain == Config(<<>>, <<>>, NoSection)
ConfigNickBlock == Config(<<" ", " AL ">>, <<>>, NoSection)
ConfigHostBlock == Config(<<"ROOT">>, <<"HOST1">>, NoSection)
ConfigChannel ==
    Config(<<>>, <<>>,
           [ch \in {"#chan"} |->
               [hasModules |-> TRUE, disable_modules |-> {"admin"},
                hasCommands |-> TRUE, disable_commands |-> {<<"chat", "greet">>}]])

NoDiag == <<>>

\* the modules the plugin loader finds: setup() registers each (lines 197-229)
Modules == << <<"help", "greet">>, <<"fetch", "act">>, <<"log">> >>

\* the state after Sopel.__init__ with `modules` loaded by setup(), for one of
\* `configs`, and with the transport holding one of `inboxes`
InitWith(modules, configs, inboxes) ==
    /\ InitSay
    /\ callables = RegisterCallables(EmptyCallables, Flatten(modules))
    /\ firstReg = NoteFirstReg(EmptyCallables, Flatten(modules))
    /\ shutdown_methods = <<>>
    /\ jobs = <<>>
    /\ url_callbacks = NoDict
    /\ nRegOps = 0
    /\ config \in configs
    /\ times = <<>>
    /\ disp = IdleDispatch
    /\ calls = <<>>
    /\ diag = NoDiag
    /\ inbox \in inboxes
    /\ nEvents = 0
    /\ InitCap
    /\ InitShutdown
    /\ urlOps = <<>>

Init == InitWith(<<>>, {ConfigPlain}, {<<>>})

\* one caller sending short texts, unsplit, one after the other
NextSayOf(texts, rcpts, ticks, maxSends) ==
    \/ \E text \in texts, r \in rcpts :
           Len(sayLog) < maxSends /\ SayCall(1, text, r, 1)
    \/ SayAcquire(1)
    \/ SayWake(1)
    \/ SaySend(1)
    \/ \E d \in ticks : now + d <= MaxTime /\ Tick(d)

\* two texts repeated to one recipient, long enough for the loop detection to
\* substitute and to drop
NextSayLoop == NextSayOf({Hi, Yo}, {"#chan"}, {Ms(LoopSeconds)}, MaxLoopSends)

SpecSayLoop == Init /\ [][NextSayLoop]_vars

\* a text, the placeholder itself and a text with a line break
NextSayRepeat ==
    NextSayOf({Hi, Dots, HiNewline}, {"#chan"}, {Ms(LoopSeconds)}, MaxRepeatSends)

SpecSayRepeat == Init /\ [][NextSayRepeat]_vars

----------------------------------------------------------------------------
(* say(): properties                                                       *)

SayRcpts == {sayLog[i].rcpt : i \in DOMAIN sayLog}

\* the passes through say() for recipient r, oldest first
CallsTo(r) == SelectSeq(sayLog, LAMBDA e : e.rcpt = r)

\* the texts written to e's recipient before the pass e, oldest first
WrittenBefore(e) ==
    Texts(SelectSeq(SubSeq(written, 1, e.seen), LAMBDA w : w.rcpt = e.rcpt))

\* the time of the last write to e's recipient before the pass e
LastWriteBefore(e) ==
    LET W == SelectSeq(SubSeq(written, 1, e.seen), LAMBDA w : w.rcpt = e.rcpt)
    IN  W[Len(W)].at

\* the first n passes for r carry one text and lie less than LoopSeconds apart
SameTextBurst(L, n) ==
    /\ Len(L) >= n
    /\ \A i \in 1..n : L[i].text = L[1].text
    /\ L[n].at - L[1].at < Ms(LoopSeconds)

\* C8 as claimed: of 5 sends of one text to one recipient in under 120 seconds,
\* starting from an empty history, the 5th is written as '...'
C8_FifthSendIsPlaceholder ==
    \A r \in SayRcpts :
        LET L == CallsTo(r)
        IN  SameTextBurst(L, 5) => L[5].verdict = "subst"

\* C8 amended: of 6 unsplit sends of one text (not '...' itself, without line
\* breaks) to one recipient in under 120 seconds, starting from an empty
\* history, the first 5 are written unchanged and the 6th is written as '...'
C8_SixthSendIsPlaceholder ==
    \A r \in SayRcpts :
        LET L == CallsTo(r)
        IN  (/\ SameTextBurst(L, 6)
             /\ L[1].text # Dots
             /\ safe(L[1].text) = L[1].text)
            => /\ \A i \in 1..5 : L[i].verdict = "sent"
               /\ L[6].verdict = "subst"
               /\ written[L[6].seen + 1].text = Dots

C8_Witness ==
    \E r \in SayRcpts :
        LET L == CallsTo(r)
        IN  /\ SameTextBurst(L, 6)
            /\ L[1].text = Hi
            /\ L[6].verdict = "subst"

\* passes j-3 .. j-1 for r were substituted by '...', pass j carries their text,
\* and all four lie within LoopSeconds
AfterThreeSubst(L, j) ==
    /\ j > 3
    /\ j <= Len(L)
    /\ \A i \in (j - 3)..(j - 1) : L[i].verdict = "subst" /\ L[i].text = L[j].text
    /\ L[j].at - L[j - 3].at < Ms(LoopSeconds)

\* C9 as claimed: after three consecutive substitutions within the window, the
\* next send of the same text is dropped
C9_DroppedAfterThreeSubst ==
    \A r \in SayRcpts :
        LET L == CallsTo(r)
        IN  \A j \in DOMAIN L : AfterThreeSubst(L, j) => L[j].verdict = "dropped"

\* C9 amended: ... the next send of the same text is dropped when that text is
\* still 5 of the last 8 messages written to the recipient, and is written
\* unchanged when it is not
C9_DroppedWhileStillRepeated ==
    \A r \in SayRcpts :
        LET L == CallsTo(r)
        IN  \A j \in DOMAIN L :
                AfterThreeSubst(L, j) =>
                    IF Count(LastN(WrittenBefore(L[j]), LoopLookback), L[j].text)
                           >= LoopRepeats
                    THEN L[j].verdict = "dropped"
                    ELSE L[j].verdict = "sent"

C9_Witness ==
    \E r \in SayRcpts :
        LET L == CallsTo(r)
        IN  \E j \in DOMAIN L : AfterThreeSubst(L, j) /\ L[j].verdict = "dropped"

\* C10 as claimed: every send with max_messages = 1 of at most 400 bytes
\* performs exactly one write
C10_AlwaysOneWrite ==
    \A i \in DOMAIN sayLog :
        (sayLog[i].max = 1 /\ Len(sayLog[i].text) <= MaxLineBytes)
            => sayLog[i].verdict # "dropped"

\* the loop detection's case for dropping, read off the transport: the text is
\* 5 of the last 8 messages written to the recipient and '...' is 3 of them
DropCase(e) ==
    LET last8 == LastN(WrittenBefore(e), LoopLookback)
    IN  /\ Count(last8, e.text) >= LoopRepeats
        /\ Count(last8, Dots) >= DotsLimit

\* C10 amended: a send with max_messages = 1 of at most 400 bytes performs
\* exactly one write, except that it performs none when the loop detection
\* drops it: only in its case for dropping, and always when the last write to
\* the recipient is then less than 120 seconds old
C10_OneWriteUnlessDropped ==
    /\ Len(written) = Cardinality({i \in DOMAIN sayLog : sayLog[i].verdict # "dropped"})
    /\ \A i \in DOMAIN sayLog :
        LET e == sayLog[i]
        IN  (e.max = 1 /\ Len(e.text) <= MaxLineBytes) =>
                /\ e.verdict = "dropped" => DropCase(e)
                /\ (DropCase(e) /\ e.at - LastWriteBefore(e) < Ms(LoopSeconds))
                       => e.verdict = "dropped"
                /\ e.verdict # "dropped" =>
                       /\ written[e.seen + 1].rcpt = e.rcpt
                       /\ written[e.seen + 1].text \in {e.text, Dots}
                       /\ (i < Len(sayLog) => sayLog[i + 1].seen = e.seen + 1)

C10_Witness ==
    \E i, j \in DOMAIN sayLog :
        /\ sayLog[i].max = 1 /\ sayLog[i].verdict = "sent" /\ sayLog[i].seen > 0
        /\ sayLog[j].max = 1 /\ sayLog[j].verdict = "dropped"

----------------------------------------------------------------------------
(* The registry and dispatch: modules come and go, then one line arrives   *)

InitDispatch ==
    InitWith(<<>>, {ConfigPlain, ConfigNickBlock, ConfigHostBlock, ConfigChannel},
             {<<e>> : e \in {EvAl, EvAlAction, EvAlOther, EvNotice, EvEcho, EvRoot}})

CallSteps ==
    \/ \E c \in DOMAIN calls : CallEnter(c)
    \/ \E c \in DOMAIN calls : CallCreate(c)
    \/ \E c \in DOMAIN calls : CallCheck(c)
    \/ \E c \in DOMAIN calls, result \in {ReturnsNone, NOLIMIT, Raises} :
           CallReturn(c, result)

NextDispatch ==
    \/ \E n \in DOMAIN Modules :
           nRegOps < MaxRegOps /\ Register(Modules[n], <<>>, <<>>, <<>>)
    \/ \E o \in Callables : nRegOps < MaxRegOps /\ Unregister(o)
    \/ DispatchBegin
    \/ DispatchStep
    \/ DispatchEnd
    \/ CallSteps

SpecDispatch == InitDispatch /\ [][NextDispatch]_vars

----------------------------------------------------------------------------
(* dispatch(): properties                                                  *)

\* the calls dispatch has made for the event it is working on, as
\* (pattern, callable) pairs in the order it made them
StartedNow ==
    LET mine == SelectSeq(calls, LAMBDA c : c.evno = nEvents)
    IN  [i \in DOMAIN mine |-> [rule |-> mine[i].rule, func |-> mine[i].func]]

\* dispatch has gone through every pattern and callable for its event
DispatchOver == disp.pc = "running" /\ disp.queue = <<>>

\* the (pattern, callable) pairs of `bucketOrder`'s matching patterns, those
\* that pass the filters only, in the order of `bucketOrder` and of the buckets
SurvivorsIn(priority, bucketOrder, ev) ==
    Flatten([i \in DOMAIN bucketOrder |->
        IF Match(bucketOrder[i], ev.text)
        THEN LET funcs == DictGet(callables[priority], bucketOrder[i])
             IN  Flatten([j \in DOMAIN funcs |->
                    IF Verdict(funcs[j], ev, disp.nick_blocked, disp.host_blocked) = "call"
                    THEN <<[rule |-> bucketOrder[i], func |-> funcs[j]]>>
                    ELSE <<>>])
        ELSE <<>>])

\* high before medium before low; within a priority the patterns in the order
\* of their first registration; within a pattern the callables in bucket order
ClaimedOrder(ev) ==
    Flatten([n \in DOMAIN Priorities |->
        SurvivorsIn(Priorities[n], firstReg[Priorities[n]], ev)])

IsPrefix(s, t) == Len(s) <= Len(t) /\ SubSeq(t, 1, Len(s)) = s

\* C1: dispatch starts the surviving handlers by priority, then by the order in
\* which their patterns were first registered, then by their order under the
\* pattern; an inline handler's body is over before the next handler starts
C1_StartOrderIsRegistrationOrder ==
    /\ disp.pc = "running" =>
          /\ IsPrefix(StartedNow, ClaimedOrder(disp.ev))
          /\ DispatchOver => StartedNow = ClaimedOrder(disp.ev)
    /\ \A c \in DOMAIN calls :
          (~calls[c].thread /\ calls[c].pc \notin {"done", "rejected"}) => c = Len(calls)

\* the order the code follows: the patterns by the position of their bucket in
\* the priority's dictionary (a bucket is made by the first register() or
\* unregister() that names the pattern)
BucketOrder(priority) == [i \in DOMAIN callables[priority] |-> callables[priority][i].key]

StartOrderIsBucketOrder ==
    LET order == Flatten([n \in DOMAIN Priorities |->
                    SurvivorsIn(Priorities[n], BucketOrder(Priorities[n]), disp.ev)])
    IN  disp.pc = "running" =>
          /\ IsPrefix(StartedNow, order)
          /\ DispatchOver => StartedNow = order

\* C4: a handler is never invoked for an event whose type is not among the
\* types the handler accepts
C4_EventTypeFilter ==
    \A c \in DOMAIN calls : calls[c].ev.event \in Attr(calls[c].func).event

\* (pattern, callable) pairs on file whose pattern matches the event's text
OnFileFor(ev) ==
    {<<priority, i, j>> \in {"high", "medium", "low"} \X (1..8) \X (1..8) :
        /\ i \in DOMAIN callables[priority]
        /\ j \in DOMAIN callables[priority][i].val
        /\ Match(callables[priority][i].key, ev.text)}

FuncAt(x) == callables[x[1]][x[2]].val[x[3]]
RuleAt(x) == callables[x[1]][x[2]].key

CalledNow(rule, func) ==
    \E c \in DOMAIN calls :
        calls[c].evno = nEvents /\ calls[c].rule = rule /\ calls[c].func = func

\* a NOTICE was dispatched with PRIVMSG-only handlers on file under matching
\* patterns, and none of them was invoked
C4_Witness ==
    /\ DispatchOver
    /\ disp.ev.event = "NOTICE"
    /\ \E x \in OnFileFor(disp.ev) :
          /\ "NOTICE" \notin Attr(FuncAt(x)).event
          /\ Verdict_NoEventFilter(FuncAt(x), disp.ev, disp.nick_blocked,
                                   disp.host_blocked) = "call"
          /\ ~CalledNow(RuleAt(x), FuncAt(x))

\* the actor matches an active nick-block or host-block
ActorBlocked(ev) ==
    \/ \E i \in DOMAIN config.nick_blocks :
          Strip(config.nick_blocks[i]) # ""
          /\ Lower(Strip(config.nick_blocks[i])) = Lower(ev.nick)
    \/ \E i \in DOMAIN config.host_blocks :
          Strip(config.host_blocks[i]) # ""
          /\ Lower(Strip(config.host_blocks[i])) = Lower(ev.host)

\* the filters other than the block lists let the callable through
Accepts(o, ev) ==
    /\ ev.event \in Attr(o).event
    /\ Attr(o).hasIntents => ev.intent \in Attr(o).intents
    /\ Lower(ev.nick) = Lower(BotNick) => Attr(o).echo

\* C5 as claimed: for a blocked actor no non-exempt handler is invoked, and
\* every exempt handler whose pattern matches is
C5_BlockedNeverExemptAlways ==
    /\ \A c \in DOMAIN calls :
          ActorBlocked(calls[c].ev) => Attr(calls[c].func).unblockable
    /\ (DispatchOver /\ ActorBlocked(disp.ev)) =>
          \A x \in OnFileFor(disp.ev) :
              Attr(FuncAt(x)).unblockable => CalledNow(RuleAt(x), FuncAt(x))

\* C5 amended: for a blocked actor without privilege no non-exempt handler is
\* invoked, and every exempt handler whose pattern matches is invoked if it
\* accepts the event (its type, its intent, its being an echo)
C5_BlockedUnprivilegedExemptIfAccepted ==
    /\ \A c \in DOMAIN calls :
          (ActorBlocked(calls[c].ev) /\ ~calls[c].ev.admin)
              => Attr(calls[c].func).unblockable
    /\ (DispatchOver /\ ActorBlocked(disp.ev)) =>
          \A x \in OnFileFor(disp.ev) :
              (Attr(FuncAt(x)).unblockable /\ Accepts(FuncAt(x), disp.ev))
                  => CalledNow(RuleAt(x), FuncAt(x))

\* a blocked actor without privilege: the exempt handler was invoked, a
\* non-exempt one on file under a matching pattern was not
C5_Witness ==
    /\ DispatchOver
    /\ ActorBlocked(disp.ev) /\ ~disp.ev.admin
    /\ \E x, y \in OnFileFor(disp.ev) :
          /\ Attr(FuncAt(x)).unblockable /\ CalledNow(RuleAt(x), FuncAt(x))
          /\ ~Attr(FuncAt(y)).unblockable /\ Accepts(FuncAt(y), disp.ev)
          /\ ~CalledNow(RuleAt(y), FuncAt(y))

----------------------------------------------------------------------------
(* call(): the modules are loaded, events arrive while the clock runs      *)

InitCall ==
    InitWith(<<Modules[1], <<"fetch">> >>, {ConfigPlain, ConfigChannel},
             {<<e1, e2>> : e1 \in {EvAl, EvAlQuery}, e2 \in {EvAl, EvRoot}})

NextCall ==
    \/ DispatchBegin
    \/ DispatchStep
    \/ DispatchEnd
    \/ CallSteps
    \/ now + Ms(1) <= Ms(MaxCallSeconds) /\ Tick(Ms(1))

SpecCall == InitCall /\ [][NextCall]_vars

Executed(c) == calls[c].pc \in {"body", "done"}

\* two invocations of one rate-limited handler for one actor without
\* privilege, less than the handler's rate apart, neither returning NOLIMIT
WithinRate(c1, c2) ==
    /\ c1 # c2
    /\ calls[c1].func = calls[c2].func
    /\ ActorKey(calls[c1].ev) = ActorKey(calls[c2].ev)
    /\ ~calls[c1].ev.admin /\ ~calls[c2].ev.admin
    /\ ~Attr(calls[c1].func).unblockable
    /\ Attr(calls[c1].func).rate > 0
    /\ calls[c1].pc # "start" /\ calls[c2].pc # "start"
    /\ calls[c1].ct <= calls[c2].ct
    /\ calls[c2].ct - calls[c1].ct < Ms(Attr(calls[c1].func).rate)
    /\ calls[c1].result # NOLIMIT /\ calls[c2].result # NOLIMIT

\* C2: of two invocations of a handler with a per-actor rate, for the same
\* actor without privilege and less than the rate apart, only one executes the
\* body (neither having returned NOLIMIT), inline or in threads
C2_OneExecutionWithinRate ==
    \A c1, c2 \in DOMAIN calls :
        WithinRate(c1, c2) => ~(Executed(c1) /\ Executed(c2))

\* the same for the handlers that dispatch calls inline
OneInlineExecutionWithinRate ==
    \A c1, c2 \in DOMAIN calls :
        (WithinRate(c1, c2) /\ ~calls[c1].thread)
            => ~(Executed(c1) /\ Executed(c2))

MaxRate(o) == Max(Attr(o).rate, Max(Attr(o).global_rate, Attr(o).channel_rate))

\* C3: a body's returning NOLIMIT leaves no timestamp: every timestamp on
\* record, in whatever scope, is the start time of an invocation whose body
\* did not return NOLIMIT, and an invocation is turned away by a rate limit
\* only on account of such an invocation
C3_NolimitLeavesNoTimestamp ==
    /\ \A key \in DOMAIN times : \A o \in DOMAIN times[key] :
          \E c \in DOMAIN calls :
              /\ calls[c].pc = "done" /\ calls[c].result # NOLIMIT
              /\ calls[c].func = o
              /\ calls[c].ct = times[key][o]
              /\ key \in ScopeKeys(calls[c].ev)
    /\ \A c2 \in DOMAIN calls :
          (calls[c2].pc = "rejected" /\ ~ConfigDisables(calls[c2].func, calls[c2].ev))
              => \E c1 \in DOMAIN calls :
                    /\ calls[c1].pc = "done" /\ calls[c1].result # NOLIMIT
                    /\ calls[c1].func = calls[c2].func
                    /\ ScopeKeys(calls[c1].ev) \cap ScopeKeys(calls[c2].ev) # {}
                    /\ calls[c2].ct - calls[c1].ct < Ms(MaxRate(calls[c2].func))

\* a body returned NOLIMIT and the same actor's next invocation of the handler,
\* less than the rate later, executed the body
C3_Witness ==
    \E c1, c2 \in DOMAIN calls :
        /\ c1 < c2
        /\ calls[c1].func = calls[c2].func
        /\ ActorKey(calls[c1].ev) = ActorKey(calls[c2].ev)
        /\ ~calls[c2].ev.admin
        /\ Attr(calls[c1].func).rate > 0
        /\ calls[c2].ct - calls[c1].ct < Ms(Attr(calls[c1].func).rate)
        /\ calls[c1].pc = "done" /\ calls[c1].result = NOLIMIT
        /\ ~calls[c1].thread
        /\ Executed(c2)
        /\ \A c \in DOMAIN calls :
              calls[c].func = calls[c1].func => calls[c].result \in {NOLIMIT, ""}

----------------------------------------------------------------------------
(* cap_req(): modules ask for capabilities before and after registration   *)

\* capability names, such that one is the other less its first character
CapNames == {<<"b">>, <<"a", "b">>}
Markers == {"+", "=", "-"}
CapTokens == CapNames \cup {<<m>> \o c : m \in Markers, c \in CapNames}
CapArgs == {NoArg, "A"}

NextCap ==
    \/ \E capability \in CapTokens, arg \in CapArgs :
           Len(capLog) < MaxCapReqs /\ CapReq("m", capability, arg)
    \/ \E enabled \in SUBSET CapNames : ConnectionRegistered(enabled)

SpecCap == Init /\ [][NextCap]_vars

\* the disposition marker of a token ("" for none) and its bare capability name
MarkerOf(capability) == IF Head(capability) \in Markers THEN Head(capability) ELSE ""
BareName(capability) == IF Head(capability) \in Markers THEN Tail(capability) ELSE capability

\* an accepted request before the j-th, for the same bare capability name
AcceptedBefore(j) ==
    {i \in 1..(j - 1) :
        capLog[i].ok /\ BareName(capLog[i].capability) = BareName(capLog[j].capability)}

\* nothing but the requests before it can make the j-th request fail
BeforeRegistration(j) == ~capLog[j].registered

\* C6: a request whose arg differs from that of an accepted earlier request for
\* the same bare capability name fails, whatever markers the two carry; a
\* request fails on account of its arg only then (two requests with the same
\* marker and the same arg both succeed)
C6_ArgConflictWhateverMarker ==
    \A j \in DOMAIN capLog :
        /\ (\E i \in AcceptedBefore(j) : capLog[i].arg # capLog[j].arg) => ~capLog[j].ok
        /\ (/\ BeforeRegistration(j)
            /\ AcceptedBefore(j) # {}
            /\ \A i \in 1..(j - 1) : capLog[i].capability = capLog[j].capability
                                      /\ capLog[i].arg = capLog[j].arg) => capLog[j].ok

\* C7: after an accepted best-effort (unmarked) or require request for a
\* capability a forbid fails; after an accepted forbid a require fails; a
\* forbid after nothing but forbids with the same arg succeeds
C7_FirstComeFirstServed ==
    \A j \in DOMAIN capLog :
        /\ (/\ MarkerOf(capLog[j].capability) = "-"
            /\ \E i \in AcceptedBefore(j) : MarkerOf(capLog[i].capability) \in {"", "="})
               => ~capLog[j].ok
        /\ (/\ MarkerOf(capLog[j].capability) = "="
            /\ \E i \in AcceptedBefore(j) : MarkerOf(capLog[i].capability) = "-")
               => ~capLog[j].ok
        /\ (/\ MarkerOf(capLog[j].capability) = "-"
            /\ BeforeRegistration(j)
            /\ AcceptedBefore(j) # {}
            /\ \A i \in 1..(j - 1) : capLog[i].capability = capLog[j].capability
                                      /\ capLog[i].arg = capLog[j].arg) => capLog[j].ok

----------------------------------------------------------------------------
(* say(): two threads send to one recipient until its history is full      *)

TaskText(k) == IF k = 1 THEN Hi ELSE Yo

NextSayHistory ==
    \/ \E k \in Tasks :
           Len(sayLog) < MaxHistSends /\ SayCall(k, TaskText(k), "#chan", 1)
    \/ \E k \in Tasks : SayAcquire(k)
    \/ \E k \in Tasks : SayWake(k)
    \/ \E k \in Tasks : SaySend(k)

SpecSayHistory == Init /\ [][NextSayHistory]_vars

\* what say() has written to recipient r, as history entries, oldest first
WrittenTo(r) ==
    LET mine == SelectSeq(written, LAMBDA w : w.rcpt = r)
    IN  [i \in DOMAIN mine |-> [time |-> mine[i].at, text |-> safe(mine[i].text)]]

----------------------------------------------------------------------------
(* _shutdown(): modules register their hooks, the bot shuts down; a hook    *)
(* may itself call register() or unregister()                              *)

RegistryCall ==
    \/ \E h \in Shutdowns : Register(<<>>, <<>>, <<h>>, <<>>)
    \/ \E h \in Shutdowns : Unregister(h)

NextShutdown ==
    \/ shut.pc \in {"idle", "hook"} /\ nRegOps < MaxHookOps /\ RegistryCall
    \/ shut.run < MaxShutdownRuns /\ ShutdownBegin
    \/ ShutdownStep
    \/ \E raised \in BOOLEAN : HookReturn(raised)

SpecShutdown == Init /\ [][NextShutdown]_vars

\* the entry of the given kind that run r of _shutdown() logged
Logged(kind, r) ==
    shutLog[CHOOSE e \in DOMAIN shutLog : shutLog[e].kind = kind /\ shutLog[e].run = r]

RunEnded(r) == \E e \in DOMAIN shutLog : shutLog[e].kind = "end" /\ shutLog[e].run = r

\* the hooks run r has called, in the order of the calls
CalledIn(r) ==
    LET mine == SelectSeq(shutLog, LAMBDA e : e.kind = "call" /\ e.run = r)
    IN  [i \in DOMAIN mine |-> mine[i].hook]

\* C12: of two runs of _shutdown() with no registration in between, the first
\* calls every registered hook and leaves the list empty, the second calls
\* nothing: every hook is called exactly once in total
C12_TwoRunsCallEachHookOnce ==
    (RunEnded(1) /\ RunEnded(2)
     /\ Logged("begin", 2).regops = Logged("end", 1).regops) =>
        /\ Logged("begin", 2).list = <<>>
        /\ CalledIn(2) = <<>>
        /\ \A h \in Shutdowns :
              Count(CalledIn(1), h) >= Count(Logged("end", 1).list, h)

\* the second of two runs in succession finds the list empty and calls nothing
SecondRunCallsNothing ==
    (RunEnded(1) /\ RunEnded(2)
     /\ Logged("begin", 2).regops = Logged("end", 1).regops) =>
        /\ Logged("begin", 2).list = <<>>
        /\ CalledIn(2) = <<>>

\* C13: a run of _shutdown() calls the hooks registered when it starts, in
\* registration order, whether or not a hook raises; when hooks call
\* register() or unregister() during the run, every hook that was registered
\* at the start and still is at the end has been called
C13_EveryHookCalledInOrder ==
    \A r \in 1..MaxShutdownRuns :
        RunEnded(r) =>
            /\ Logged("begin", r).regops = Logged("end", r).regops
                  => CalledIn(r) = Logged("begin", r).list
            /\ \A h \in Shutdowns :
                  (Count(Logged("begin", r).list, h) > 0
                   /\ Count(Logged("end", r).list, h) > 0)
                      => Count(CalledIn(r), h) > 0

\* the same for the runs during which no hook touches the registry
PlainRunCallsEveryHook ==
    \A r \in 1..MaxShutdownRuns :
        (RunEnded(r) /\ Logged("begin", r).regops = Logged("end", r).regops)
            => CalledIn(r) = Logged("begin", r).list

----------------------------------------------------------------------------
(* URL callbacks: modules register and unregister patterns, URLs are       *)
(* looked up                                                               *)

UrlPatterns == {<<"a">>, <<"b">>, <<"b", "a">>}
UrlCallbacks == {"title", "wiki"}
Urls == {<<"a", "b">>, <<"b", "a">>}

NextUrl ==
    /\ Len(urlOps) < MaxUrlOps
    /\ \/ \E pattern \in UrlPatterns, callback \in UrlCallbacks :
              RegisterUrlCallback(pattern, callback)
       \/ \E pattern \in UrlPatterns : UnregisterUrlCallback(pattern)
       \/ \E url \in Urls : SearchUrlCallbacks(url)

SpecUrl == Init /\ [][NextUrl]_vars

\* the last operation on `pattern` among the first n, 0 if there is none
LastOpOn(pattern, n) ==
    LET S == {i \in 1..n : urlOps[i].op # "search" /\ urlOps[i].pattern = pattern}
    IN  IF S = {} THEN 0 ELSE CHOOSE i \in S : \A j \in S : j <= i

\* `pattern` is registered after the first n operations
RegisteredAfter(pattern, n) ==
    LastOpOn(pattern, n) # 0 /\ urlOps[LastOpOn(pattern, n)].op = "register"

\* C14: whatever was registered and unregistered before it, a search yields
\* exactly one pair for every registered pattern found in the url, with the
\* callback last registered for it, and nothing else
C14_SearchYieldsRegisteredMatches ==
    \A n \in DOMAIN urlOps :
        urlOps[n].op = "search" =>
            LET result == urlOps[n].result
                PairsOf(pattern) ==
                    {i \in DOMAIN result.pairs : result.pairs[i].match.re = pattern}
            IN  /\ result.raised = ""
                /\ \A pattern \in UrlPatterns :
                      IF RegisteredAfter(pattern, n - 1)
                         /\ search(pattern, urlOps[n].url) # NoMatch
                      THEN /\ Cardinality(PairsOf(pattern)) = 1
                           /\ \A i \in PairsOf(pattern) :
                                 result.pairs[i].function =
                                     urlOps[LastOpOn(pattern, n - 1)].callback
                      ELSE PairsOf(pattern) = {}

\* the same for the searches made once a pattern has been registered
SearchAfterRegistration ==
    \A n \in DOMAIN urlOps :
        (urlOps[n].op = "search" /\ \E m \in 1..(n - 1) : urlOps[m].op = "register") =>
            LET result == urlOps[n].result
                PairsOf(pattern) ==
                    {i \in DOMAIN result.pairs : result.pairs[i].match.re = pattern}
            IN  /\ result.raised = ""
                /\ \A pattern \in UrlPatterns :
                      IF RegisteredAfter(pattern, n - 1)
                         /\ search(pattern, urlOps[n].url) # NoMatch
                      THEN /\ Cardinality(PairsOf(pattern)) = 1
                           /\ \A i \in PairsOf(pattern) :
                                 result.pairs[i].function =
                                     urlOps[LastOpOn(pattern, n - 1)].callback
                      ELSE PairsOf(pattern) = {}

----------------------------------------------------------------------------
(* call(): a body that raises                                              *)

\* the callable gets through every filter of dispatch() for the event
PassesFilters(o, ev) ==
    /\ Accepts(o, ev)
    /\ ev.admin \/ Attr(o).unblockable \/ ~ActorBlocked(ev)

\* the calls dispatch has made for the event it is working on
CallsNow == {c \in DOMAIN calls : calls[c].evno = nEvents}

\* C15: a body that raises does not end the dispatch of its event: once
\* dispatch has gone through the event, every callable on file under a
\* matching pattern that passes the filters has been called, those after the
\* one that raised as well as those before it
C15_RaiseDoesNotStopDispatch ==
    (DispatchOver /\ \E c \in CallsNow : calls[c].result = Raises) =>
        \A x \in OnFileFor(disp.ev) :
            PassesFilters(FuncAt(x), disp.ev) => CalledNow(RuleAt(x), FuncAt(x))

\* a body raised, with calls for the same event before it and after it
C15_Witness ==
    /\ DispatchOver
    /\ \E b, c, a \in CallsNow :
          /\ b < c /\ c < a
          /\ calls[c].result = Raises
          /\ calls[b].pc = "done" /\ calls[a].pc = "done"

\* C16: the return from a body that has raised leaves the timestamps of the
\* callable as they were, in the actor's, the bot's and the channel's scope
C16_RaiseSkipsTimestamps ==
    [][\A c \in DOMAIN calls :
          (calls[c].pc = "body" /\ calls'[c].pc = "done" /\ calls'[c].result = Raises)
              => \A key \in ScopeKeys(calls[c].ev) :
                    /\ key \in DOMAIN times'
                    /\ (calls[c].func \in DOMAIN times'[key])
                           = (key \in DOMAIN times /\ calls[c].func \in DOMAIN times[key])
                    /\ calls[c].func \in DOMAIN times'[key]
                           => times'[key][calls[c].func] = times[key][calls[c].func]]_vars

----------------------------------------------------------------------------
(* say(): two threads send to two recipients                               *)

NextSayTasks ==
    \/ \E k \in Tasks, r \in {"#chan", "al"} :
           Len(sayLog) < MaxTaskSends /\ SayCall(k, TaskText(k), r, 1)
    \/ \E k \in Tasks : SayAcquire(k)
    \/ \E k \in Tasks : SayWake(k)
    \/ \E k \in Tasks : SaySend(k)

SpecSayTasks == Init /\ [][NextSayTasks]_vars

\* C17: a thread asleep in the throttle for one recipient does not keep out a
\* thread that is about to send to another recipient: it does not hold the
\* lock the other one needs
C17_SleeperBlocksNobody ==
    \A k1, k2 \in Tasks :
        (/\ frame[k1].pc = "sleep"
         /\ frame[k2].pc = "acquire"
         /\ frame[k2].rcpt # frame[k1].rcpt) => sending # k1

----------------------------------------------------------------------------
(* call(): concurrent updates of self._times                               *)

\* C18: no step discards a scope entry or a timestamp of self._times, and no
\* step puts an older time in the place of a stored timestamp
C18_NoLostOrOlderTimestamp ==
    [][\A key \in DOMAIN times :
          /\ key \in DOMAIN times'
          /\ \A o \in DOMAIN times[key] :
                /\ o \in DOMAIN times'[key]
                /\ times'[key][o] >= times[key][o]]_vars

----------------------------------------------------------------------------
(* register() and unregister(): what is on file                            *)

\* the callable is in some bucket of `cs`
OnFile(cs, o) ==
    \E priority \in {"high", "medium", "low"} :
        \E i \in DOMAIN cs[priority] : InList(cs[priority][i].val, o)

\* C19: unregister() of a callable that is on file, under patterns of its own
\* or under the catch-all pattern, once or several times, leaves it in no
\* bucket (so that no later dispatch can call it)
C19_UnregisterRemovesEverywhere ==
    [][\A o \in Callables :
          (OnFile(callables, o) /\ Unregister(o)) => ~OnFile(callables', o)]_vars

\* C20: a callable on file is exactly once in the bucket of each of its
\* patterns (of the catch-all pattern if it has none) at its own priority, and
\* in no other bucket
C20_OncePerPattern ==
    \A o \in Callables :
        OnFile(callables, o) =>
            \A priority \in {"high", "medium", "low"} :
                /\ priority = Attr(o).priority =>
                      \A n \in DOMAIN RulesOf(o) :
                          /\ RulesOf(o)[n] \in DictKeys(callables[priority])
                          /\ Count(DictGet(callables[priority], RulesOf(o)[n]), o) = 1
                /\ \A i \in DOMAIN callables[priority] :
                      (priority # Attr(o).priority
                       \/ ~InList(RulesOf(o), callables[priority][i].key))
                          => ~InList(callables[priority][i].val, o)

\* the same with "at least once" for "exactly once"
AtLeastOncePerPattern ==
    \A o \in Callables :
        OnFile(callables, o) =>
            \A priority \in {"high", "medium", "low"} :
                /\ priority = Attr(o).priority =>
                      \A n \in DOMAIN RulesOf(o) :
                          /\ RulesOf(o)[n] \in DictKeys(callables[priority])
                          /\ Count(DictGet(callables[priority], RulesOf(o)[n]), o) >= 1
                /\ \A i \in DOMAIN callables[priority] :
                      (priority # Attr(o).priority
                       \/ ~InList(RulesOf(o), callables[priority][i].key))
                          => ~InList(callables[priority][i].val, o)


----------------------------------------------------------------------------
(* cap_req(): what is stored, and requests after registration              *)

\* the list self._cap_reqs holds under the key cap
StoredFor(reqs, lists, cap) == lists[reqs[cap]]

\* C21: a call of cap_req() never removes or replaces a stored request: every
\* key of the store keeps its list, at most lengthened at its end, and a
\* successful request is the last entry of the list of its bare capability name
C21_SuccessfulRequestsAreKept ==
    [][/\ \A cap \in DOMAIN _cap_reqs :
              /\ cap \in DOMAIN _cap_reqs'
              /\ IsPrefix(StoredFor(_cap_reqs, cap_lists, cap),
                          StoredFor(_cap_reqs', cap_lists', cap))
       /\ (Len(capLog') > Len(capLog) /\ capLog'[Len(capLog')].ok) =>
              LET e == capLog'[Len(capLog')]
                  cap == IF MarkerOf(e.capability) \in {"=", "-"}
                         THEN BareName(e.capability) ELSE e.capability
                  kept == StoredFor(_cap_reqs', cap_lists', cap)
              IN  kept # <<>> /\ kept[Len(kept)].arg = e.arg]_vars

\* the j-th request agrees with what registration left: a forbid of a
\* capability that is not enabled, or another request of one that is
AgreesWithOutcome(j) ==
    (MarkerOf(capLog[j].capability) = "-")
        = (BareName(capLog[j].capability) \notin capLog[j].enabled)

\* after registration a request that would change what is enabled fails
PostRegistrationChangeFails ==
    \A j \in DOMAIN capLog :
        (capLog[j].registered /\ ~AgreesWithOutcome(j)) => ~capLog[j].ok

\* C22: after registration a forbid of an enabled capability fails and a
\* best-effort or require request of a capability that is not enabled fails; a
\* request that agrees with what is enabled, with no accepted request for its
\* capability before it, succeeds
C22_PostRegistrationRequests ==
    /\ PostRegistrationChangeFails
    /\ \A j \in DOMAIN capLog :
           (/\ capLog[j].registered
            /\ AgreesWithOutcome(j)
            /\ AcceptedBefore(j) = {}) => capLog[j].ok


----------------------------------------------------------------------------
(* dispatch(): inline calls and threads                                    *)

\* the call has left call()
Returned(c) == calls[c].pc \in {"done", "rejected"}

\* C23: a callable without `thread` is called inline: a later call for the
\* same event exists only once it has returned; a callable with `thread` is
\* started and not waited for: dispatch can take its next callable whenever no
\* inline call of the event is still running
C23_InlineBlocksThreadDoesNot ==
    /\ \A c1, c2 \in DOMAIN calls :
           (c1 < c2 /\ calls[c1].evno = calls[c2].evno /\ ~Attr(calls[c1].func).thread)
               => Returned(c1)
    /\ disp.wait # 0 => ~Attr(calls[disp.wait].func).thread
    /\ (/\ disp.pc = "running"
        /\ disp.queue # <<>>
        /\ \A c \in CallsNow : Attr(calls[c].func).thread \/ Returned(c))
           => ENABLED DispatchStep

\* a thread is still in its body when a later callable of the same event has
\* been called inline and has returned
C23_Witness ==
    \E c1, c2 \in CallsNow :
        /\ c1 < c2
        /\ Attr(calls[c1].func).thread /\ calls[c1].pc = "body"
        /\ ~Attr(calls[c2].func).thread /\ calls[c2].pc = "done"
        /\ \E c0 \in CallsNow : c0 < c1 /\ ~Attr(calls[c0].func).thread


----------------------------------------------------------------------------
(* say(): what the 120 seconds of the loop detection are measured from     *)

\* the recipient's history as the pass e found it: the last entries written
\* to e's recipient before e, as (time, text) like self.stack holds them
HistoryBefore(e) ==
    LET W == SelectSeq(SubSeq(written, 1, e.seen), LAMBDA w : w.rcpt = e.rcpt)
    IN  LastN([i \in DOMAIN W |-> [time |-> W[i].at, text |-> safe(W[i].text)]],
              StackKeep)

\* the time at which the pass e read the clock (line 358)
ClockReadAt(e) ==
    LET H == HistoryBefore(e) IN H[Len(H)].time + e.elapsed

\* the time of the last entry with e's text among the entries say() looks at
LastOccurrence(e) ==
    LET H == LastN(HistoryBefore(e), LoopLookback)
        at == {i \in DOMAIN H : H[i].text = e.text}
    IN  H[CHOOSE i \in at : \A j \in at : j <= i].time

\* C24: the text is replaced by '...' only when it is at least 5 of the last 8
\* entries of the recipient's history and its most recent occurrence there is
\* less than 120 seconds old; when that occurrence is 120 seconds old or older
\* the text is sent as it is
C24_WindowFromLastOccurrence ==
    \A i \in DOMAIN sayLog :
        LET e == sayLog[i]
        IN  e.verdict # "sent" =>
                /\ Count(Texts(LastN(HistoryBefore(e), LoopLookback)), e.text)
                       >= LoopRepeats
                /\ ClockReadAt(e) - LastOccurrence(e) < Ms(LoopSeconds)

\* the same with the 120 seconds measured from the last entry of the history,
\* whatever its text
C24_WindowFromLastEntry ==
    \A i \in DOMAIN sayLog :
        LET e == sayLog[i]
        IN  e.verdict # "sent" =>
                /\ Count(Texts(LastN(HistoryBefore(e), LoopLookback)), e.text)
                       >= LoopRepeats
                /\ e.elapsed # NoElapsed
                /\ e.elapsed < Ms(LoopSeconds)


----------------------------------------------------------------------------
(* say(): long texts and max_messages                                      *)

\* a text of n bytes with spaces at the given places
Filler(n, spaces) == [i \in 1..n |-> IF i \in spaces THEN " " ELSE "x"]

\* texts of one line, of two and of more than three, with a space to split at
SplitTexts ==
    {Hi, Filler(MaxLineBytes + 50, {200}), Filler(3 * MaxLineBytes + 50, {300})}

NextSaySplit ==
    \/ \E text \in SplitTexts, n \in 1..MaxFragments :
           Len(sayLog) < MaxSplitPasses /\ SayCall(1, text, "#chan", n)
    \/ SayAcquire(1)
    \/ SayWake(1)
    \/ SaySend(1)
    \/ now + Ms(LoopSeconds) <= MaxTime /\ Tick(Ms(LoopSeconds))

\* the lock is free when nobody holds it and time.sleep() returns: a call of
\* say() that can take its next step takes it
SpecSaySplit ==
    /\ Init /\ [][NextSaySplit]_vars
    /\ WF_vars(SayAcquire(1)) /\ WF_vars(SayWake(1)) /\ WF_vars(SaySend(1))

\* the pass i of the log is the recursion of the pass before it (line 385)
Recursion(i) ==
    /\ i > 1
    /\ sayLog[i - 1].excess # <<>>
    /\ sayLog[i - 1].verdict # "dropped"

\* the passes of the call of say() that the pass i belongs to, up to i
ChainTo(i) == {j \in 1..i : \A m \in (j + 1)..i : Recursion(m)}

\* C25: say(text, recipient, n) with n >= 1 comes to its end, and writes at
\* most n times: every pass writes at most once, a recursion is made with
\* max_messages one less on what the pass before left over, a pass with
\* max_messages <= 1 sends all of its text and leaves nothing over, and so no
\* call has more passes than the max_messages it began with
C25_AtMostNWrites ==
    /\ [](/\ Len(written) <= Len(sayLog)
          /\ \A i \in DOMAIN sayLog :
                /\ Recursion(i) =>
                      /\ sayLog[i].max = sayLog[i - 1].max - 1
                      /\ sayLog[i].text \o sayLog[i].excess
                            = SplitForSay(sayLog[i - 1].excess, sayLog[i].max)[1]
                                \o SplitForSay(sayLog[i - 1].excess, sayLog[i].max)[2]
                /\ sayLog[i].max <= 1 =>
                      /\ sayLog[i].excess = <<>>
                      /\ Recursion(i) => sayLog[i].text = sayLog[i - 1].excess
                /\ LET first == CHOOSE j \in ChainTo(i) : \A m \in ChainTo(i) : j <= m
                   IN  Cardinality(ChainTo(i)) <= sayLog[first].max)
    /\ (frame[1].pc # "idle") ~> (frame[1].pc = "idle")

\* a text of more than three lines was sent with max_messages = 3 in three
\* writes, the last of them longer than a line
C25_Witness ==
    /\ frame[1].pc = "idle"
    /\ \E i \in DOMAIN sayLog :
          /\ Cardinality(ChainTo(i)) = 3
          /\ sayLog[i].max = 1
          /\ sayLog[i].verdict = "sent"
          /\ Len(sayLog[i].text) > MaxLineBytes
          /\ written[sayLog[i].seen + 1].text = sayLog[i].text


----------------------------------------------------------------------------
(* dispatch(): lines the bot itself has sent                               *)

\* the actor of the event is the bot, whatever the case of the two nicks
FromBot(ev) == Lower(ev.nick) = Lower(BotNick)

\* C26: for an event whose actor is the bot itself no callable without `echo`
\* is called, and once dispatch has gone through the event every callable
\* with `echo` on file under a matching pattern that the other filters let
\* through has been called
C26_EchoFilter ==
    /\ \A c \in DOMAIN calls : FromBot(calls[c].ev) => Attr(calls[c].func).echo
    /\ (DispatchOver /\ FromBot(disp.ev)) =>
           \A x \in OnFileFor(disp.ev) :
               (Attr(FuncAt(x)).echo /\ PassesFilters(FuncAt(x), disp.ev))
                   => CalledNow(RuleAt(x), FuncAt(x))

\* a line of the bot (its nick in another case) was dispatched: a callable
\* without `echo` that nothing else would have filtered out was not called,
\* one with `echo` was
C26_Witness ==
    /\ DispatchOver
    /\ FromBot(disp.ev) /\ disp.ev.nick # BotNick
    /\ \E x, y \in OnFileFor(disp.ev) :
          /\ ~Attr(FuncAt(x)).echo
          /\ Verdict_NoEchoFilter(FuncAt(x), disp.ev, disp.nick_blocked,
                                  disp.host_blocked) = "call"
          /\ ~CalledNow(RuleAt(x), FuncAt(x))
          /\ Attr(FuncAt(y)).echo
          /\ CalledNow(RuleAt(y), FuncAt(y))


----------------------------------------------------------------------------
(* cap_req(): a request that fails                                         *)

\* the step is a call of cap_req() that raises
CapReqFails == Len(capLog') > Len(capLog) /\ ~capLog'[Len(capLog')].ok

\* C27: a call of cap_req() that fails leaves the store as it was: the same
\* keys, and under every key the same list of requests
C27_FailedRequestChangesNothing ==
    [][CapReqFails =>
          /\ DOMAIN _cap_reqs' = DOMAIN _cap_reqs
          /\ \A cap \in DOMAIN _cap_reqs :
                StoredFor(_cap_reqs', cap_lists', cap)
                    = StoredFor(_cap_reqs, cap_lists, cap)]_vars

\* with requests on file, one request has failed on a conflict with them
\* before registration and another after registration
C27_Witness ==
    /\ DOMAIN _cap_reqs # {}
    /\ \E i, j, k \in DOMAIN capLog :
          /\ i < j /\ j < k
          /\ capLog[i].ok
          /\ ~capLog[j].ok /\ ~capLog[j].registered
          /\ ~capLog[k].ok /\ capLog[k].registered
          /\ \A cap \in DOMAIN _cap_reqs : Len(StoredFor(_cap_reqs, cap_lists, cap)) = 1


----------------------------------------------------------------------------
(* call(): a call that is turned away                                      *)

\* only the callable with `thread` is loaded: no inline call comes before its
\* threads, and two lines arrive from one actor or from two
InitCallThreads ==
    InitWith(<< <<"fetch">> >>, {ConfigPlain, ConfigChannel},
             {<<e1, e2>> : e1 \in {EvAl, EvAlQuery}, e2 \in {EvAl, EvRoot}})

SpecCallThreads == InitCallThreads /\ [][NextCall]_vars

\* every timestamp on file before the step is on file after it, unchanged
TimestampsKept ==
    \A key \in DOMAIN times : \A o \in DOMAIN times[key] :
        key \in DOMAIN times' /\ o \in DOMAIN times'[key]
        /\ times'[key][o] = times[key][o]

\* every timestamp on file after the step was on file before it, unchanged
NoTimestampSet ==
    \A key \in DOMAIN times' : \A o \in DOMAIN times'[key] :
        key \in DOMAIN times /\ o \in DOMAIN times[key]
        /\ times[key][o] = times'[key][o]

\* the step is the one in which call() returns without running the body
Rejection(c) ==
    c \in DOMAIN calls /\ calls[c].pc = "enter" /\ calls'[c].pc = "rejected"

\* C28: a call turned away by a rate limit or by the channel's configuration
\* has not run the body, and from its entry to its return it has set, changed
\* and removed no timestamp: at most it has created empty scope entries
C28_RejectedCallKeepsTimestamps ==
    /\ [](\A c \in DOMAIN calls :
              calls[c].pc = "rejected" => calls[c].result = "" /\ ~calls[c].lost)
    /\ [][\A c \in DOMAIN calls :
              Rejection(c) => TimestampsKept /\ NoTimestampSet]_vars

\* a call that is turned away sets and changes no timestamp
C28_RejectedCallSetsNoTimestamp ==
    [][\A c \in DOMAIN calls : Rejection(c) => NoTimestampSet]_vars


----------------------------------------------------------------------------
(* say(): a message that the loop detection discards                       *)

\* a text of two lines, and its first line
TwoLines == Filler(MaxLineBytes + 50, {200})
FirstLine == get_sendable_message(TwoLines)[1]

\* the first line is repeated by itself, and the text of two lines is sent
\* with max_messages = 2
NextSayDrop ==
    \/ Len(sayLog) < MaxDropSends /\ SayCall(1, FirstLine, "#chan", 1)
    \/ Len(sayLog) < MaxDropSends /\ SayCall(1, TwoLines, "#chan", 2)
    \/ SayAcquire(1)
    \/ SayWake(1)
    \/ SaySend(1)
    \/ now + Ms(LoopSeconds) <= MaxTime /\ Tick(Ms(LoopSeconds))

SpecSayDrop == Init /\ [][NextSayDrop]_vars

\* the step is a pass through say() that ends in the `return` of line 375
DropStep == Len(sayLog') > Len(sayLog) /\ sayLog'[Len(sayLog')].verdict = "dropped"

\* C29: the pass that discards its message leaves the history and the
\* transport as they were, gives the lock back and ends the call, excess or
\* not; and while nothing has been written since, the same text sent again
\* less than 120 seconds after the last history entry is discarded again
C29_DropChangesNothing ==
    /\ [][DropStep =>
             /\ stack' = stack
             /\ written' = written
             /\ sending' = NoTask
             /\ frame'[sayLog'[Len(sayLog')].task] = IdleFrame]_vars
    /\ [](\A i, j \in DOMAIN sayLog :
             (/\ i < j
              /\ sayLog[i].verdict = "dropped"
              /\ sayLog[j].rcpt = sayLog[i].rcpt
              /\ sayLog[j].text = sayLog[i].text
              /\ sayLog[j].seen = sayLog[i].seen
              /\ sayLog[j].elapsed < Ms(LoopSeconds))
                 => sayLog[j].verdict = "dropped")

\* the first line of a text of two lines was discarded, its excess was never
\* sent, and the text was discarded once more
C29_Witness ==
    /\ frame[1].pc = "idle"
    /\ \E i, j \in DOMAIN sayLog :
          /\ i < j
          /\ sayLog[i].verdict = "dropped" /\ sayLog[i].excess # <<>>
          /\ sayLog[j].verdict = "dropped" /\ sayLog[j].seen = sayLog[i].seen
          /\ sayLog[j].text = sayLog[i].text


----------------------------------------------------------------------------
(* dispatch(): a callable with several patterns                            *)

\* a callable with two patterns and no rate limit is loaded, with one of one
\* pattern; they are registered again or unregistered, then one line arrives
InitPatterns ==
    InitWith(<< <<"note", "help">> >>, {ConfigPlain, ConfigChannel},
             {<<e>> : e \in {EvAl, EvAlOther, EvRoot, EvNotice}})

NextPatterns ==
    \/ nRegOps < MaxRegOps /\ Register(<<"note", "help">>, <<>>, <<>>, <<>>)
    \/ \E o \in {"note", "help"} : nRegOps < MaxRegOps /\ Unregister(o)
    \/ DispatchBegin
    \/ DispatchStep
    \/ DispatchEnd
    \/ CallSteps

SpecPatterns == InitPatterns /\ [][NextPatterns]_vars

\* the callable has no rate limit of any scope
Unlimited(o) ==
    Attr(o).rate = 0 /\ Attr(o).global_rate = 0 /\ Attr(o).channel_rate = 0

\* how many times the body of o has run for the event at hand on account of
\* the pattern `rule`
RunsFor(o, rule) ==
    Cardinality({c \in CallsNow :
                    calls[c].func = o /\ calls[c].rule = rule /\ calls[c].pc = "done"})

\* dispatch has gone through the event and every call it made has returned
DispatchDone == DispatchOver /\ \A c \in CallsNow : Returned(c)

\* how many times o is on file under the pattern `rule`
TimesOnFile(o, rule) ==
    IF rule \in DictKeys(callables[Attr(o).priority])
    THEN Count(DictGet(callables[Attr(o).priority], rule), o)
    ELSE 0

\* C30: once dispatch has gone through an event, a callable on file without
\* rate limits that every filter lets through has run exactly once for each
\* of its patterns that matches the text of the event, and not at all for the
\* others: k times in all when k of its patterns match
C30_OncePerMatchingPattern ==
    DispatchDone =>
        \A o \in Callables :
            (/\ OnFile(callables, o)
             /\ Unlimited(o)
             /\ PassesFilters(o, disp.ev)
             /\ ~ConfigDisables(o, disp.ev)) =>
                \A n \in DOMAIN RulesOf(o) :
                    RunsFor(o, RulesOf(o)[n])
                        = IF Match(RulesOf(o)[n], disp.ev.text) THEN 1 ELSE 0

\* the same, with one run for every time the callable is on file under a
\* matching pattern
C30_OncePerEntryOnFile ==
    DispatchDone =>
        \A o \in Callables :
            (/\ Unlimited(o)
             /\ PassesFilters(o, disp.ev)
             /\ ~ConfigDisables(o, disp.ev)) =>
                \A n \in DOMAIN RulesOf(o) :
                    RunsFor(o, RulesOf(o)[n])
                        = IF Match(RulesOf(o)[n], disp.ev.text)
                          THEN TimesOnFile(o, RulesOf(o)[n]) ELSE 0

\* a callable on file once under each of its two patterns, both matching, has
\* run twice for one event
TwoRunsForTwoPatterns ==
    /\ DispatchDone
    /\ TimesOnFile("note", PatA) = 1 /\ TimesOnFile("note", PatAB) = 1
    /\ RunsFor("note", PatA) = 1 /\ RunsFor("note", PatAB) = 1

============================================================================
